---- MODULE Spec2Model ----
(***************************************************************************)
(* Model of skills/xmind/scripts/create_xmind.mjs: the XMind builder       *)
(* (XMindBuilder.build, buildTopic, resolveLinks, resolveDependencies,     *)
(* hasPlannedTasks), the main() pipeline around it, and the ZIP writer     *)
(* (crc32, buildZip).                                                      *)
(*                                                                         *)
(* Conventions.  An optional JavaScript value is a sequence of length at   *)
(* most one: << >> is undefined, <<v>> is the value v.  A Map is a         *)
(* function whose DOMAIN is its key set.  A generated identifier is a      *)
(* positive integer: randomUUID() is modelled as drawing a value that was  *)
(* never drawn before in the process (its collision probability, 2^-98     *)
(* for the 26 hex digits kept, is neglected).  An ISO date string is the   *)
(* number of the UTC day it names.  Pass-through topic fields that no      *)
(* reference or task logic reads (notes, labels, markers, structureClass)  *)
(* are left out of the records.                                            *)
(***************************************************************************)
EXTENDS Integers, Sequences, FiniteSets, TLC

\* ------------------------------------------------------------------ bounds

\* Largest number of sheets in one input.
MaxSheets == 2
\* Largest number of topics in one input, all sheets together.
MaxTopics == 2
\* Largest number of title references (links, dependencies, relationships)
\* in one input of the reference family.
MaxRefs == 2

\* Titles that topics carry, and the titles that references name: a link or
\* a dependency names "B" or "Z", a relationship runs from "A" or "Z" to "B"
\* or "Z".  No topic carries "Z".
TopicTitles == {"A", "B"}
RefTargets == {"B", "Z"}
RelSources == {"A", "Z"}

\* ------------------------------------------------------- optional values

None == << >>
Some(v) == <<v>>
Has(o) == Len(o) > 0
Val(o) == o[1]

\* ------------------------------------------------------------------ Map

EmptyMap == [k \in {} |-> 0]
MapGet(m, k) == IF k \in DOMAIN m THEN Some(m[k]) ELSE None
MapSet(m, k, v) == [x \in (DOMAIN m) \cup {k} |-> IF x = k THEN v ELSE m[x]]

\* First index of s whose element satisfies Bad, 0 when there is none
\* (the element at which Array.prototype.map's callback first throws).
FirstIndex(s, Bad(_)) ==
    IF \E i \in 1..Len(s) : Bad(s[i])
    THEN CHOOSE i \in 1..Len(s) : Bad(s[i]) /\ \A j \in 1..(i - 1) : ~Bad(s[j])
    ELSE 0

\* ----------------------------------------------------------- identifiers

\* generateId(): a value never returned before; `last` is the last one drawn.
GenerateId(last) == last + 1

\* The twelve generateId() calls made while the THEMES literal is evaluated
\* at module load, in source order.
ThemeIdsAtLoad == 12
THEMES ==
    [default |-> << >>,
     business |-> <<1, 2, 3, 4>>,
     dark |-> <<5, 6, 7, 8>>,
     simple |-> <<9, 10, 11, 12>>]

\* sheet.theme ? THEMES[sheet.theme] || {} : {}
SheetTheme(theme) ==
    IF Has(theme) /\ Val(theme) \in DOMAIN THEMES THEN THEMES[Val(theme)] ELSE << >>

\* --------------------------------------------------------------- hrefs

\* A link string is a prefix followed by an optional identifier.
ExternalHref(url) == [prefix |-> url, id |-> None]
\* `xmind:#${targetId}`
InternalHref(targetId) == [prefix |-> "xmind:#", id |-> Some(targetId)]

\* ----------------------------------------------------------------- dates

MsPerDay == 86400000
\* new Date(iso).getTime() for the ISO string of UTC day d.
DateGetTime(d) == d * MsPerDay

\* ------------------------------------------------------------- buildTopic

TaskProvider == "org.xmind.ui.task"

\* hasTaskProps with every field tested for truthiness: a 0 is no value.
HasTaskPropsTruthy(input) ==
    \/ Has(input.taskStatus)
    \/ Has(input.progress) /\ Val(input.progress) # 0
    \/ Has(input.priority) /\ Val(input.priority) # 0
    \/ Has(input.startDate)
    \/ Has(input.dueDate)
    \/ Has(input.durationDays) /\ Val(input.durationDays) # 0
    \/ Has(input.dependencies)

HasTaskProps(input) ==
    \/ Has(input.taskStatus)
    \/ Has(input.progress)
    \/ Has(input.priority)
    \/ Has(input.startDate)
    \/ Has(input.dueDate)
    \/ Has(input.durationDays)
    \/ Has(input.dependencies)

\* The duration with the day count taken for seconds, not milliseconds.
TaskDurationSeconds(input) ==
    IF Has(input.durationDays) /\ ~Has(input.startDate)
    THEN Some(Val(input.durationDays) * 86400)
    ELSE IF Has(input.dueDate) /\ Has(input.startDate)
         THEN Some(DateGetTime(Val(input.dueDate)) - DateGetTime(Val(input.startDate)))
         ELSE None

\* The duration with the day count written whenever it is given, a start
\* date or not.
TaskDurationDaysFirst(input) ==
    IF Has(input.durationDays)
    THEN Some(Val(input.durationDays) * MsPerDay)
    ELSE IF Has(input.dueDate) /\ Has(input.startDate)
         THEN Some(DateGetTime(Val(input.dueDate)) - DateGetTime(Val(input.startDate)))
         ELSE None

\* The duration written into the task block.
TaskDuration(input) ==
    IF Has(input.durationDays) /\ ~Has(input.startDate)
    THEN Some(Val(input.durationDays) * MsPerDay)
    ELSE IF Has(input.dueDate) /\ Has(input.startDate)
         THEN Some(DateGetTime(Val(input.dueDate)) - DateGetTime(Val(input.startDate)))
         ELSE None

\* The task block `tc` as buildTopic leaves it (dependencies are filled in
\* by resolveDependencies).
TaskContent(input) ==
    [status |-> input.taskStatus,
     progress |-> input.progress,
     priority |-> input.priority,
     start |-> IF Has(input.startDate) THEN Some(DateGetTime(Val(input.startDate))) ELSE None,
     due |-> IF Has(input.dueDate) THEN Some(DateGetTime(Val(input.dueDate))) ELSE None,
     duration |-> TaskDuration(input),
     dependencies |-> None]

TopicExtensions(input) ==
    IF HasTaskProps(input)
    THEN <<[provider |-> TaskProvider, content |-> TaskContent(input)]>>
    ELSE << >>

\* pendingDependencies.set(id, input.dependencies) when the list is not empty.
PendDependencies(pend, id, input) ==
    IF HasTaskProps(input) /\ Has(input.dependencies) /\ Len(Val(input.dependencies)) > 0
    THEN MapSet(pend, id, Val(input.dependencies))
    ELSE pend

\* pendingLinks.set(id, input.linkToTopic)
PendLink(pend, id, input) ==
    IF Has(input.linkToTopic) THEN MapSet(pend, id, Val(input.linkToTopic)) ELSE pend

\* topic.href after buildTopic
DirectHref(input) ==
    IF Has(input.href) THEN Some(ExternalHref(Val(input.href))) ELSE None

\* input.boundaries.map(b => ({id: generateId(), range, title}))
BuildBoundaries(bs, last) ==
    [i \in 1..Len(bs) |-> [id |-> GenerateId(last + (i - 1)), range |-> bs[i].range]]

\* input.summaryTopics.map(s => { topicId = generateId(); id = generateId() })
BuildSummaries(ss, last) ==
    [i \in 1..Len(ss) |->
        [id |-> GenerateId(GenerateId(last + 2 * (i - 1))),
         range |-> ss[i].range,
         topicId |-> GenerateId(last + 2 * (i - 1))]]

\* topic.summary: one synthesized summary topic per range
BuildSummary(ss, summaries) ==
    [i \in 1..Len(ss) |-> [id |-> summaries[i].topicId, title |-> ss[i].title]]

\* The callouts with one identifier generated before the map and reused.
BuildCalloutsOneId(cs, last) ==
    [i \in 1..Len(cs) |-> [id |-> GenerateId(last), title |-> cs[i]]]

\* input.callouts.map(text => ({id: generateId(), title: text}))
BuildCallouts(cs, last) ==
    [i \in 1..Len(cs) |-> [id |-> GenerateId(last + (i - 1)), title |-> cs[i]]]

\* topic.children: set only when there are attached topics or callouts
BuildChildrenField(attached, callout) ==
    IF Len(attached) > 0 \/ Len(callout) > 0
    THEN Some([attached |-> IF Len(attached) > 0 THEN Some(attached) ELSE None,
               callout |-> IF Len(callout) > 0 THEN Some(callout) ELSE None])
    ELSE None

\* The builder's mutable state threaded through buildTopic:
\* b = [lastId, titleToId, pendingLinks, pendingDependencies].
RECURSIVE BuildTopic(_, _)
RECURSIVE BuildAttached(_, _, _, _)
RECURSIVE BuildAttachedReversed(_, _, _, _)

\* The children built left to right, each put in front of the ones before it.
BuildAttachedReversed(children, i, acc, b) ==
    IF i > Len(children)
    THEN [topics |-> acc, b |-> b]
    ELSE LET r == BuildTopic(children[i], b)
         IN BuildAttachedReversed(children, i + 1, <<r.topic>> \o acc, r.b)

\* input.children.map(c => this.buildTopic(c)), left to right
BuildAttached(children, i, acc, b) ==
    IF i > Len(children)
    THEN [topics |-> acc, b |-> b]
    ELSE LET r == BuildTopic(children[i], b)
         IN BuildAttached(children, i + 1, Append(acc, r.topic), r.b)

BuildTopic(input, b) ==
    LET id == GenerateId(b.lastId)
        boundaries == BuildBoundaries(input.boundaries, id)
        afterBoundaries == id + Len(boundaries)
        summaries == BuildSummaries(input.summaryTopics, afterBoundaries)
        afterSummaries == afterBoundaries + 2 * Len(summaries)
        b1 == [lastId |-> afterSummaries,
               titleToId |-> MapSet(b.titleToId, input.title, id),
               pendingLinks |-> PendLink(b.pendingLinks, id, input),
               pendingDependencies |-> PendDependencies(b.pendingDependencies, id, input)]
        kids == BuildAttached(input.children, 1, << >>, b1)
        callout == BuildCallouts(input.callouts, kids.b.lastId)
    IN [topic |->
            [id |-> id,
             title |-> input.title,
             href |-> DirectHref(input),
             extensions |-> TopicExtensions(input),
             boundaries |-> boundaries,
             summaries |-> summaries,
             summary |-> BuildSummary(input.summaryTopics, summaries),
             children |-> BuildChildrenField(kids.topics, callout)],
        b |-> [kids.b EXCEPT !.lastId = @ + Len(callout)]]

\* topic.children?.attached || []
AttachedOf(topic) ==
    IF Has(topic.children) /\ Has(Val(topic.children).attached)
    THEN Val(Val(topic.children).attached)
    ELSE << >>

\* topic.children?.callout || []
CalloutOf(topic) ==
    IF Has(topic.children) /\ Has(Val(topic.children).callout)
    THEN Val(Val(topic.children).callout)
    ELSE << >>

\* The topic with its attached children replaced (the tree is mutated in place).
WithAttached(topic, attached) ==
    IF Len(attached) = 0
    THEN topic
    ELSE [topic EXCEPT !.children = Some([Val(@) EXCEPT !.attached = Some(attached)])]

\* ------------------------------------------------------------ errors

ErrDependency == "Dependency target not found"
ErrLink == "Link target not found"
ErrRelSource == "Relationship source not found"
ErrRelTarget == "Relationship target not found"
ErrNoPath == "no output path"
ErrBadPath == "path must end with .xmind"
ErrMkdir == "mkdir failed"
ErrWrite == "writeFile failed"

\* new Error(`${kind}: "${title}"`)
MkError(kind, title) == [kind |-> kind, title |-> title]

\* ----------------------------------------------------- resolveDependencies

\* deps.map(d => ...): the resolved list, or the error of the first
\* dependency whose target is not in the title index.
ResolveDeps(deps, t2i) ==
    LET bad == FirstIndex(deps, LAMBDA d : ~Has(MapGet(t2i, d.targetTitle)))
    IN IF bad > 0
       THEN [err |-> Some(MkError(ErrDependency, deps[bad].targetTitle)), deps |-> << >>]
       ELSE [err |-> None,
             deps |-> [i \in 1..Len(deps) |->
                         [id |-> t2i[deps[i].targetTitle],
                          type |-> deps[i].type,
                          lag |-> IF Has(deps[i].lag) THEN Val(deps[i].lag) ELSE 0]]]

RECURSIVE ResolveDependencies(_, _, _)
RECURSIVE ResolveDependenciesEach(_, _, _, _, _)

ResolveDependenciesEach(children, i, acc, t2i, pend) ==
    IF i > Len(children)
    THEN [err |-> None, topics |-> acc]
    ELSE LET r == ResolveDependencies(children[i], t2i, pend)
         IN IF Has(r.err)
            THEN [err |-> r.err, topics |-> acc]
            ELSE ResolveDependenciesEach(children, i + 1, Append(acc, r.topic), t2i, pend)

ResolveDependencies(topic, t2i, pend) ==
    LET deps == MapGet(pend, topic.id)
        own == IF Has(deps) /\ Len(topic.extensions) > 0
               THEN ResolveDeps(Val(deps), t2i)
               ELSE [err |-> None, deps |-> << >>]
        mine == IF Has(deps) /\ Len(topic.extensions) > 0 /\ ~Has(own.err)
                THEN [topic EXCEPT !.extensions[1].content.dependencies = Some(own.deps)]
                ELSE topic
    IN IF Has(own.err)
       THEN [err |-> own.err, topic |-> topic]
       ELSE LET kids == ResolveDependenciesEach(AttachedOf(mine), 1, << >>, t2i, pend)
            IN IF Has(kids.err)
               THEN [err |-> kids.err, topic |-> mine]
               ELSE [err |-> None, topic |-> WithAttached(mine, kids.topics)]

\* ------------------------------------------------------------ resolveLinks

RECURSIVE ResolveLinks(_, _, _)
RECURSIVE ResolveLinksEach(_, _, _, _, _)

ResolveLinksEach(children, i, acc, t2i, pend) ==
    IF i > Len(children)
    THEN [err |-> None, topics |-> acc]
    ELSE LET r == ResolveLinks(children[i], t2i, pend)
         IN IF Has(r.err)
            THEN [err |-> r.err, topics |-> acc]
            ELSE ResolveLinksEach(children, i + 1, Append(acc, r.topic), t2i, pend)

\* resolveLinks without its two loops over the children.
ResolveLinksShallow(topic, t2i, pend) ==
    LET targetTitle == MapGet(pend, topic.id)
        targetId == IF Has(targetTitle) THEN MapGet(t2i, Val(targetTitle)) ELSE None
    IN IF Has(targetTitle) /\ ~Has(targetId)
       THEN [err |-> Some(MkError(ErrLink, Val(targetTitle))), topic |-> topic]
       ELSE [err |-> None,
             topic |-> IF Has(targetTitle)
                       THEN [topic EXCEPT !.href = Some(InternalHref(Val(targetId)))]
                       ELSE topic]

\* Callout records carry no pending link (their ids are never keys of
\* pendingLinks) and no children, so the walk over them changes nothing.
ResolveLinks(topic, t2i, pend) ==
    LET targetTitle == MapGet(pend, topic.id)
        targetId == IF Has(targetTitle) THEN MapGet(t2i, Val(targetTitle)) ELSE None
        mine == IF Has(targetTitle) /\ Has(targetId)
                THEN [topic EXCEPT !.href = Some(InternalHref(Val(targetId)))]
                ELSE topic
    IN IF Has(targetTitle) /\ ~Has(targetId)
       THEN [err |-> Some(MkError(ErrLink, Val(targetTitle))), topic |-> topic]
       ELSE LET kids == ResolveLinksEach(AttachedOf(mine), 1, << >>, t2i, pend)
            IN IF Has(kids.err)
               THEN [err |-> kids.err, topic |-> mine]
               ELSE [err |-> None, topic |-> WithAttached(mine, kids.topics)]

\* ---------------------------------------------------------- hasPlannedTasks

\* hasPlannedTasks looking at the root topic only.
HasPlannedTasksRootOnly(input) ==
    \/ Has(input.startDate)
    \/ Has(input.dueDate)
    \/ Has(input.progress)
    \/ Has(input.durationDays)

RECURSIVE HasPlannedTasks(_)
HasPlannedTasks(input) ==
    \/ Has(input.startDate)
    \/ Has(input.dueDate)
    \/ Has(input.progress)
    \/ Has(input.durationDays)
    \/ \E i \in 1..Len(input.children) : HasPlannedTasks(input.children[i])

\* ------------------------------------------------- sheet documents (build)

WorkingDayProvider == "org.xmind.ui.working-day-settings"

SheetExtensions(sheet) ==
    IF HasPlannedTasks(sheet.rootTopic)
    THEN <<[provider |-> WorkingDayProvider, content |-> "YmFzaWMtY2FsZW5kYXI="]>>
    ELSE << >>

\* The error thrown by the relationship callback for rel, if any: the source
\* is tested before the target.
RelError(rel, t2i) ==
    IF ~Has(MapGet(t2i, rel.sourceTitle))
    THEN Some(MkError(ErrRelSource, rel.sourceTitle))
    ELSE IF ~Has(MapGet(t2i, rel.targetTitle))
         THEN Some(MkError(ErrRelTarget, rel.targetTitle))
         ELSE None

\* The relationship callback with both ends read from the source title.
BuildRelationshipsOneEnd(rels, t2i, last) ==
    LET bad == FirstIndex(rels, LAMBDA r : Has(RelError(r, t2i)))
    IN IF bad > 0
       THEN [err |-> RelError(rels[bad], t2i), rels |-> << >>, lastId |-> last + (bad - 1)]
       ELSE [err |-> None,
             rels |-> [i \in 1..Len(rels) |->
                         [id |-> GenerateId(last + (i - 1)),
                          end1Id |-> t2i[rels[i].sourceTitle],
                          end2Id |-> t2i[rels[i].sourceTitle]]],
             lastId |-> last + Len(rels)]

\* sheet.relationships.map(rel => ({id: generateId(), end1Id, end2Id}))
BuildRelationships(rels, t2i, last) ==
    LET bad == FirstIndex(rels, LAMBDA r : Has(RelError(r, t2i)))
    IN IF bad > 0
       THEN [err |-> RelError(rels[bad], t2i), rels |-> << >>, lastId |-> last + (bad - 1)]
       ELSE [err |-> None,
             rels |-> [i \in 1..Len(rels) |->
                         [id |-> GenerateId(last + (i - 1)),
                          end1Id |-> t2i[rels[i].sourceTitle],
                          end2Id |-> t2i[rels[i].targetTitle]]],
             lastId |-> last + Len(rels)]

\* The callback of builtSheets.map in build().
BuildSheetObj(built, t2i, last) ==
    LET id == GenerateId(last)
        r == BuildRelationships(built.sheet.relationships, t2i, id)
    IN [err |-> r.err,
        lastId |-> r.lastId,
        sheetObj |->
            [id |-> id,
             title |-> built.sheet.title,
             rootTopic |-> built.rootTopic,
             theme |-> SheetTheme(built.sheet.theme),
             extensions |-> SheetExtensions(built.sheet),
             relationships |-> r.rels]]

\* JSON.stringify(v): the text is represented by the value it denotes.
JsonStringify(v) == [json |-> v]

\* The keys of "file-entries" in the manifest document.
ManifestEntries == {"content.json", "metadata.json", "Thumbnails/thumbnail.png"}

\* The names main() hands to buildZip, in order.
ArchiveNames == <<"content.json", "metadata.json", "manifest.json">>

\* The entries main() hands to buildZip.
ArchiveEntries(res) ==
    <<[name |-> ArchiveNames[1], data |-> res.content],
      [name |-> ArchiveNames[2], data |-> res.metadata],
      [name |-> ArchiveNames[3], data |-> res.manifest]>>

\* outputPath.toLowerCase().endsWith('.xmind'), on the output paths of the model
EndsWithXmind(path) == path \in {"out/map.xmind"}

\* The output paths of the model: input.path || --path; None is no path at all.
Paths == {None, Some("out/map.xmind"), Some("out/map.txt")}

\* ------------------------------------------------------------ bytes

\* Largest number of entries given to buildZip in the archive family.
MaxFiles == 2
\* Largest payload length, in bytes, of an entry of the archive family.
MaxDataLen == 1

ConcatAll(ss) ==
    LET cat[i \in 0..Len(ss)] == IF i = 0 THEN << >> ELSE cat[i - 1] \o ss[i]
    IN cat[Len(ss)]

\* buf.writeUInt16LE(n) and buf.writeUInt32LE(n): the bytes written
U16LE(n) == <<n % 256, (n \div 256) % 256>>
U32LE(n) == <<n % 256, (n \div 256) % 256, (n \div 65536) % 256, (n \div 16777216) % 256>>

\* The bytes of buf from the 0-based offset off, len of them.
Slice(buf, off, len) == SubSeq(buf, off + 1, off + len)
RdU16(buf, off) == buf[off + 1] + 256 * buf[off + 2]
RdU32(buf, off) ==
    buf[off + 1] + 256 * buf[off + 2] + 65536 * buf[off + 3] + 16777216 * buf[off + 4]

\* Buffer.from(name, 'utf-8'): a name is a sequence of code points below
\* 0x10000, none of them a surrogate.
Utf8Char(c) ==
    IF c < 128 THEN <<c>>
    ELSE IF c < 2048 THEN <<192 + (c \div 64), 128 + (c % 64)>>
         ELSE <<224 + (c \div 4096), 128 + ((c \div 64) % 64), 128 + (c % 64)>>

Utf8Encode(name) == ConcatAll([i \in 1..Len(name) |-> Utf8Char(name[i])])

\* The reader's decoding of a name: the inverse of Utf8Encode, U+FFFD for a
\* sequence cut short.
RECURSIVE Utf8Decode(_)
Utf8Decode(bytes) ==
    IF Len(bytes) = 0 THEN << >>
    ELSE IF bytes[1] < 192
         THEN <<bytes[1]>> \o Utf8Decode(Tail(bytes))
         ELSE IF bytes[1] < 224
              THEN IF Len(bytes) < 2 THEN <<65533>>
                   ELSE <<(bytes[1] - 192) * 64 + (bytes[2] - 128)>>
                        \o Utf8Decode(SubSeq(bytes, 3, Len(bytes)))
              ELSE IF Len(bytes) < 3 THEN <<65533>>
                   ELSE <<(bytes[1] - 224) * 4096 + (bytes[2] - 128) * 64 + (bytes[3] - 128)>>
                        \o Utf8Decode(SubSeq(bytes, 4, Len(bytes)))

\* ------------------------------------------------------------------ crc32

\* A 32-bit value is its four bytes, least significant first.
Byte == 0..255
Word == [1..4 -> Byte]

\* a ^ b on one byte
BitXor[a \in Byte, b \in Byte] ==
    IF a = 0 THEN b
    ELSE IF b = 0 THEN a
         ELSE ((a + b) % 2) + 2 * BitXor[a \div 2, b \div 2]

\* x ^ y
WordXor[x \in Word, y \in Word] == [i \in 1..4 |-> BitXor[x[i], y[i]]]

\* x >>> 1
WordShr1[x \in Word] ==
    [i \in 1..4 |-> (x[i] \div 2) + (IF i < 4 THEN (x[i + 1] % 2) * 128 ELSE 0)]

\* 0xEDB88320 and 0xFFFFFFFF
CrcPoly == <<32, 131, 184, 237>>
AllOnes == <<255, 255, 255, 255>>

\* for (j = 0; j < 8; j++) crc = (crc >>> 1) ^ (crc & 1 ? 0xEDB88320 : 0)
CrcBits[crc \in Word, j \in 0..8] ==
    IF j = 8 THEN crc
    ELSE CrcBits[IF crc[1] % 2 = 1 THEN WordXor[WordShr1[crc], CrcPoly] ELSE WordShr1[crc],
                 j + 1]

\* for (i = 0; i < buf.length; i++) { crc ^= buf[i]; ... }
RECURSIVE CrcBytes(_, _, _)
CrcBytes(crc, buf, i) ==
    IF i > Len(buf) THEN crc
    ELSE CrcBytes(CrcBits[WordXor[crc, <<buf[i], 0, 0, 0>>], 0], buf, i + 1)

\* crc32 returning the register as the loop leaves it, without the last XOR.
crc32NoFinalXor(buf) == CrcBytes(AllOnes, buf, 1)

\* return (crc ^ 0xFFFFFFFF) >>> 0
crc32(buf) == WordXor[CrcBytes(AllOnes, buf, 1), AllOnes]

\* ---------------------------------------------------------------- deflate

\* zlib's deflateRawSync(data), modelled by one stored block (what zlib emits
\* at level 0 for a payload below 64 KiB): the final-block byte, the length,
\* its complement, the bytes.
DeflateRaw(data) ==
    <<1>> \o U16LE(Len(data)) \o U16LE(65535 - Len(data)) \o data

\* The reader's inflateRaw of a stored block.
InflateRaw(c) ==
    IF /\ Len(c) >= 5
       /\ c[1] = 1
       /\ RdU16(c, 1) + RdU16(c, 3) = 65535
       /\ Len(c) = 5 + RdU16(c, 1)
    THEN [ok |-> TRUE, data |-> SubSeq(c, 6, Len(c))]
    ELSE [ok |-> FALSE, data |-> << >>]

\* ---------------------------------------------------------------- buildZip

\* Concat([localHeader, nameBytes, compressed]) of one file
ZipEntry(f) ==
    U32LE(67324752) \o U16LE(20) \o U16LE(0) \o U16LE(8) \o U16LE(0) \o U16LE(0)
    \o crc32(f.data)
    \o U32LE(Len(DeflateRaw(f.data)))
    \o U32LE(Len(f.data))
    \o U16LE(Len(Utf8Encode(f.name)))
    \o U16LE(0)
    \o Utf8Encode(f.name)
    \o DeflateRaw(f.data)

\* The offset with the compressed payloads left out of the sum.
RECURSIVE ZipOffsetNoPayload(_, _)
ZipOffsetNoPayload(files, i) ==
    IF i <= 1 THEN 0
    ELSE ZipOffsetNoPayload(files, i - 1) + 30 + Len(Utf8Encode(files[i - 1].name))

\* `offset` when the loop reaches files[i]: the lengths of the entries before it
RECURSIVE ZipOffset(_, _)
ZipOffset(files, i) ==
    IF i <= 1 THEN 0 ELSE ZipOffset(files, i - 1) + Len(ZipEntry(files[i - 1]))

\* The central header with `offset` read after it was advanced past the entry.
ZipCentralHeaderNextOffset(f, offset) ==
    U32LE(33639248) \o U16LE(20) \o U16LE(20) \o U16LE(0) \o U16LE(8) \o U16LE(0) \o U16LE(0)
    \o crc32(f.data)
    \o U32LE(Len(DeflateRaw(f.data)))
    \o U32LE(Len(f.data))
    \o U16LE(Len(Utf8Encode(f.name)))
    \o U16LE(0) \o U16LE(0) \o U16LE(0) \o U16LE(0)
    \o U32LE(0)
    \o U32LE(offset + Len(ZipEntry(f)))
    \o Utf8Encode(f.name)

\* Concat([cdHeader, nameBytes]) of one file
ZipCentralHeader(f, offset) ==
    U32LE(33639248) \o U16LE(20) \o U16LE(20) \o U16LE(0) \o U16LE(8) \o U16LE(0) \o U16LE(0)
    \o crc32(f.data)
    \o U32LE(Len(DeflateRaw(f.data)))
    \o U32LE(Len(f.data))
    \o U16LE(Len(Utf8Encode(f.name)))
    \o U16LE(0) \o U16LE(0) \o U16LE(0) \o U16LE(0)
    \o U32LE(0)
    \o U32LE(offset)
    \o Utf8Encode(f.name)

\* The end of central directory record
ZipEocd(count, cdSize, cdOffset) ==
    U32LE(101010256) \o U16LE(0) \o U16LE(0) \o U16LE(count) \o U16LE(count)
    \o U32LE(cdSize) \o U32LE(cdOffset) \o U16LE(0)

BuildZip(files) ==
    LET entries == [i \in 1..Len(files) |-> ZipEntry(files[i])]
        centralDir ==
            ConcatAll([i \in 1..Len(files) |-> ZipCentralHeader(files[i], ZipOffset(files, i))])
    IN ConcatAll(entries)
       \o centralDir
       \o ZipEocd(Len(files), Len(centralDir), ZipOffset(files, Len(files) + 1))

\* ------------------------------------------------- a reader of the layout

\* The central directory record at offset off and the local record it points
\* to: the name, the payload, and where the next central record starts.
ReadCentralRecord(buf, off) ==
    IF off + 46 > Len(buf) \/ Slice(buf, off, 4) # U32LE(33639248)
    THEN [ok |-> FALSE, name |-> << >>, data |-> << >>, next |-> off]
    ELSE LET compSize == RdU32(buf, off + 20)
             nameLen == RdU16(buf, off + 28)
             extraLen == RdU16(buf, off + 30)
             commentLen == RdU16(buf, off + 32)
             local == RdU32(buf, off + 42)
         IN IF \/ off + 46 + nameLen > Len(buf)
               \/ local + 30 > Len(buf)
               \/ Slice(buf, local, 4) # U32LE(67324752)
            THEN [ok |-> FALSE, name |-> << >>, data |-> << >>, next |-> off]
            ELSE LET dataOff == local + 30 + RdU16(buf, local + 26) + RdU16(buf, local + 28)
                 IN IF dataOff + compSize > Len(buf)
                    THEN [ok |-> FALSE, name |-> << >>, data |-> << >>, next |-> off]
                    ELSE LET r == InflateRaw(Slice(buf, dataOff, compSize))
                         IN [ok |-> r.ok,
                             name |-> Utf8Decode(Slice(buf, off + 46, nameLen)),
                             data |-> r.data,
                             next |-> off + 46 + nameLen + extraLen + commentLen]

RECURSIVE ReadCentral(_, _, _, _)
ReadCentral(buf, off, n, acc) ==
    IF n = 0
    THEN [ok |-> TRUE, entries |-> acc]
    ELSE LET r == ReadCentralRecord(buf, off)
         IN IF ~r.ok
            THEN [ok |-> FALSE, entries |-> acc]
            ELSE ReadCentral(buf, r.next, n - 1, Append(acc, [name |-> r.name, data |-> r.data]))

\* The end record (the last 22 bytes: the writer leaves no comment), then the
\* central directory, then the local record of each central record.
ReadZip(buf) ==
    IF Len(buf) < 22 \/ Slice(buf, Len(buf) - 22, 4) # U32LE(101010256)
    THEN [ok |-> FALSE, entries |-> << >>]
    ELSE ReadCentral(buf, RdU32(buf, Len(buf) - 6), RdU16(buf, Len(buf) - 12), << >>)

\* ------------------------------------------------------------------ state

VARIABLES
    pc,                   \* where main() stands
    sheets,               \* input.sheets, as parsed from stdin
    outputPath,           \* input.path || --path
    lastId,               \* the last identifier generateId() returned
    titleToId,            \* XMindBuilder.titleToId
    pendingDependencies,  \* XMindBuilder.pendingDependencies
    pendingLinks,         \* XMindBuilder.pendingLinks
    rootTopic,            \* build(): the tree of the sheet being built
    builtSheets,          \* build(): builtSheets
    si,                   \* build(): index of the sheet the current loop is at
    contentJson,          \* build(): the sheet documents mapped so far
    result,               \* what build() returned
    error,                \* the error main() ended with
    fsDir,                \* whether mkdir created the output directory
    fsFile,               \* the container written at the output path
    files,                \* buildZip(files): the entries given to the archive writer
    zipBuffer,            \* what buildZip returned
    zipRead,              \* what a reader of the layout gets from zipBuffer
    zipLoop,              \* buildZip(files) followed loop turn by loop turn, the
                          \* entries given by their number and their lengths
    calls                 \* a caller of build() other than main(): the calls to
                          \* make, the identifier counter at the entry of the
                          \* running call, the outcomes of the calls made

zipVars == <<files, zipBuffer, zipRead, zipLoop>>

vars ==
    <<pc, sheets, outputPath, lastId, titleToId, pendingDependencies, pendingLinks,
      rootTopic, builtSheets, si, contentJson, result, error, fsDir, fsFile,
      files, zipBuffer, zipRead, zipLoop, calls>>

\* A 32-bit quantity of buildZip that may leave the 32 bits (JavaScript
\* numbers do not wrap): <<hi, lo>> is hi * 65536 + lo, with lo below 65536.
WideZero == <<0, 0>>
WideAdd(x, n) == <<x[1] + ((x[2] + n) \div 65536), (x[2] + n) % 65536>>

\* Largest value buf.writeUInt16LE accepts; buf.writeUInt32LE accepts a
\* value whose upper half fits in 16 bits.  Both throw a RangeError
\* (ERR_OUT_OF_RANGE) on a larger value.
U16Max == 65535
FitsU16(n) == n <= U16Max
FitsU32(x) == x[1] <= U16Max

\* buildZip is not being followed turn by turn.
NoZipLoop == [count |-> 0, nameLen |-> 0, dataLen |-> 0,
              i |-> 0, offset |-> WideZero, centralDirLen |-> WideZero, eocd |-> None]

\* main() calls build() once: no call is planned and none was made.
NoCalls == [todo |-> << >>, base |-> 0, past |-> << >>]

\* ------------------------------------------------------------------ inputs

\* A dependency as the input gives it.
MkDep(target) == [targetTitle |-> target, type |-> "FS", lag |-> None]

\* A topic of the input with none of its optional fields.
PlainTopic(title) ==
    [title |-> title, children |-> << >>, href |-> None, linkToTopic |-> None,
     taskStatus |-> None, progress |-> None, priority |-> None, startDate |-> None,
     dueDate |-> None, durationDays |-> None, dependencies |-> None,
     callouts |-> << >>, boundaries |-> << >>, summaryTopics |-> << >>,
     attachment |-> None, position |-> None]

RECURSIVE SumSeq(_)
SumSeq(s) == IF Len(s) = 0 THEN 0 ELSE s[1] + SumSeq(Tail(s))

RECURSIVE AncOrSelf(_, _)
AncOrSelf(parent, j) == IF j = 0 THEN {} ELSE {j} \cup AncOrSelf(parent, parent[j])

\* The ordered trees of n nodes, numbered in pre-order, as parent vectors.
ParentVecs(n) ==
    {p \in [1..n -> 0..(n - 1)] :
        /\ p[1] = 0
        /\ \A i \in 2..n : p[i] \in AncOrSelf(p, i - 1)}

\* A sheet skeleton: a tree shape and a title for each node.
SkeletonSheets ==
    UNION {{[parent |-> p, title |-> t] : p \in ParentVecs(n), t \in [1..n -> TopicTitles]} :
             n \in 1..MaxTopics}

Skeletons ==
    {sk \in UNION {[1..k -> SkeletonSheets] : k \in 1..MaxSheets} :
        SumSeq([i \in 1..Len(sk) |-> Len(sk[i].parent)]) <= MaxTopics}

\* The references an input over skeleton sk may hold.
RefsFor(sk) ==
    {[kind |-> k, sheet |-> s, node |-> n, source |-> "", target |-> t] :
        k \in {"link", "dep"}, s \in 1..Len(sk), n \in 1..MaxTopics, t \in RefTargets}
    \cup
    {[kind |-> "rel", sheet |-> s, node |-> 0, source |-> u, target |-> t] :
        s \in 1..Len(sk), u \in RelSources, t \in RefTargets}

\* Where a reference stands in the input: sheet, then node, then kind.
RefPlace(r) ==
    100 * r.sheet + 10 * r.node + (CASE r.kind = "link" -> 1 [] r.kind = "dep" -> 2 [] OTHER -> 0)

\* The lists of references over sk, each list in the order of the places
\* (two references at one place come in either order), one link per topic.
RefSeqs(sk) ==
    {rs \in UNION {[1..k -> RefsFor(sk)] : k \in 0..MaxRefs} :
        /\ \A i \in 1..Len(rs) :
              rs[i].kind = "rel" \/ rs[i].node <= Len(sk[rs[i].sheet].parent)
        /\ \A i \in 1..(Len(rs) - 1) :
              /\ RefPlace(rs[i]) <= RefPlace(rs[i + 1])
              /\ rs[i].kind = "link" => RefPlace(rs[i]) < RefPlace(rs[i + 1])}

RefsAt(refs, kind, s, n) ==
    SelectSeq(refs, LAMBDA r : r.kind = kind /\ r.sheet = s /\ r.node = n)

ChildrenOf(parent, i) ==
    SelectSeq([j \in 1..Len(parent) |-> j], LAMBDA j : parent[j] = i)

\* The input topic at node i of sheet s, with the references declared on it.
RECURSIVE MkTopic(_, _, _, _)
MkTopic(sk, refs, s, i) ==
    LET links == RefsAt(refs, "link", s, i)
        deps == RefsAt(refs, "dep", s, i)
        kids == ChildrenOf(sk[s].parent, i)
    IN [PlainTopic(sk[s].title[i]) EXCEPT
            !.children = [k \in 1..Len(kids) |-> MkTopic(sk, refs, s, kids[k])],
            !.linkToTopic = IF Len(links) > 0 THEN Some(links[1].target) ELSE None,
            !.dependencies =
                IF Len(deps) > 0
                THEN Some([k \in 1..Len(deps) |-> MkDep(deps[k].target)])
                ELSE None]

MkRel(r) == [sourceTitle |-> r.source, targetTitle |-> r.target]

MkSheet(title, root, rels, theme) ==
    [title |-> title, rootTopic |-> root, relationships |-> rels, theme |-> theme,
     detachedTopics |-> << >>, freePositioning |-> FALSE]

\* input.sheets for skeleton sk with the references refs.
MkSheets(sk, refs) ==
    [s \in 1..Len(sk) |->
        LET rels == RefsAt(refs, "rel", s, 0)
        IN MkSheet("Sheet", MkTopic(sk, refs, s, 1),
                   [k \in 1..Len(rels) |-> MkRel(rels[k])], None)]

\* ------------------------------------------------------------------- Init

\* The process after module load, before main() has read its input sh.
InitWithDisk(sh, file) ==
    /\ sheets = sh
    /\ pc = "start"
    /\ outputPath = None
    /\ lastId = ThemeIdsAtLoad
    /\ titleToId = EmptyMap
    /\ pendingDependencies = EmptyMap
    /\ pendingLinks = EmptyMap
    /\ rootTopic = None
    /\ builtSheets = << >>
    /\ si = 0
    /\ contentJson = << >>
    /\ result = None
    /\ error = None
    /\ fsDir = FALSE
    /\ fsFile = file
    /\ files = << >>
    /\ zipBuffer = None
    /\ zipRead = None
    /\ zipLoop = NoZipLoop
    /\ calls = NoCalls

\* The same with no file at the output path.
InitWith(sh) == InitWithDisk(sh, None)

\* Inputs of the reference family: trees of titled topics with links,
\* dependencies and relationships by title.
Init ==
    \E sk \in Skeletons : \E refs \in RefSeqs(sk) : InitWith(MkSheets(sk, refs))

\* ---------------------------------------------------------------- actions

Fail(e) ==
    /\ pc' = "exit1"
    /\ error' = Some(e)

\* Start with the output directory created as soon as the path is accepted.
StartMkdirFirst ==
    /\ UNCHANGED zipVars
    /\ UNCHANGED calls
    /\ pc = "start"
    /\ \E p \in Paths :
        /\ outputPath' = p
        /\ fsDir' = (Has(p) /\ EndsWithXmind(Val(p)))
        /\ IF ~Has(p)
           THEN Fail(MkError(ErrNoPath, ""))
           ELSE IF ~EndsWithXmind(Val(p))
                THEN Fail(MkError(ErrBadPath, ""))
                ELSE /\ pc' = IF Len(sheets) > 0 THEN "buildTopic" ELSE "return"
                     /\ error' = error
    /\ si' = 1
    /\ titleToId' = EmptyMap
    /\ pendingDependencies' = EmptyMap
    /\ pendingLinks' = EmptyMap
    /\ UNCHANGED <<sheets, lastId, rootTopic, builtSheets, contentJson, result, fsFile>>

\* Start with the extension of the output path left unchecked.
StartNoExtensionCheck ==
    /\ UNCHANGED zipVars
    /\ UNCHANGED calls
    /\ pc = "start"
    /\ \E p \in Paths :
        /\ outputPath' = p
        /\ IF ~Has(p)
           THEN Fail(MkError(ErrNoPath, ""))
           ELSE /\ pc' = IF Len(sheets) > 0 THEN "buildTopic" ELSE "return"
                /\ error' = error
    /\ si' = 1
    /\ titleToId' = EmptyMap
    /\ pendingDependencies' = EmptyMap
    /\ pendingLinks' = EmptyMap
    /\ UNCHANGED <<sheets, lastId, rootTopic, builtSheets, contentJson, result, fsDir, fsFile>>

\* main(), lines 293-307 and build()'s first three lines: parse the input,
\* take the output path, reject a missing or wrongly named one, construct the
\* builder and clear its maps.
Start ==
    /\ UNCHANGED zipVars
    /\ UNCHANGED calls
    /\ pc = "start"
    /\ \E p \in Paths :
        /\ outputPath' = p
        /\ IF ~Has(p)
           THEN Fail(MkError(ErrNoPath, ""))
           ELSE IF ~EndsWithXmind(Val(p))
                THEN Fail(MkError(ErrBadPath, ""))
                ELSE /\ pc' = IF Len(sheets) > 0 THEN "buildTopic" ELSE "return"
                     /\ error' = error
    /\ si' = 1
    /\ titleToId' = EmptyMap
    /\ pendingDependencies' = EmptyMap
    /\ pendingLinks' = EmptyMap
    /\ UNCHANGED <<sheets, lastId, rootTopic, builtSheets, contentJson, result, fsDir, fsFile>>

\* build(), first loop: const rootTopic = this.buildTopic(sheet.rootTopic)
BuildTopicStep ==
    /\ UNCHANGED zipVars
    /\ UNCHANGED calls
    /\ pc = "buildTopic"
    /\ LET r == BuildTopic(sheets[si].rootTopic,
                           [lastId |-> lastId, titleToId |-> titleToId,
                            pendingLinks |-> pendingLinks,
                            pendingDependencies |-> pendingDependencies])
       IN /\ rootTopic' = Some(r.topic)
          /\ lastId' = r.b.lastId
          /\ titleToId' = r.b.titleToId
          /\ pendingLinks' = r.b.pendingLinks
          /\ pendingDependencies' = r.b.pendingDependencies
    /\ pc' = "resolveDependencies"
    /\ UNCHANGED <<sheets, outputPath, builtSheets, si, contentJson, result, error, fsDir, fsFile>>

\* build(), first loop: this.resolveDependencies(rootTopic); builtSheets.push(...)
ResolveDependenciesStep ==
    /\ UNCHANGED zipVars
    /\ UNCHANGED calls
    /\ pc = "resolveDependencies"
    /\ LET r == ResolveDependencies(Val(rootTopic), titleToId, pendingDependencies)
       IN /\ rootTopic' = Some(r.topic)
          /\ IF Has(r.err)
             THEN /\ Fail(Val(r.err))
                  /\ UNCHANGED <<builtSheets, si>>
             ELSE /\ builtSheets' = Append(builtSheets, [rootTopic |-> r.topic, sheet |-> sheets[si]])
                  /\ si' = IF si < Len(sheets) THEN si + 1 ELSE 1
                  /\ pc' = IF si < Len(sheets) THEN "buildTopic" ELSE "resolveLinks"
                  /\ error' = error
    /\ UNCHANGED <<sheets, outputPath, lastId, titleToId, pendingDependencies, pendingLinks,
                   contentJson, result, fsDir, fsFile>>

\* build(), second loop: this.resolveLinks(rootTopic)
ResolveLinksStep ==
    /\ UNCHANGED zipVars
    /\ UNCHANGED calls
    /\ pc = "resolveLinks"
    /\ LET r == ResolveLinks(builtSheets[si].rootTopic, titleToId, pendingLinks)
       IN /\ builtSheets' = [builtSheets EXCEPT ![si].rootTopic = r.topic]
          /\ IF Has(r.err)
             THEN /\ Fail(Val(r.err))
                  /\ si' = si
             ELSE /\ si' = IF si < Len(builtSheets) THEN si + 1 ELSE 1
                  /\ pc' = IF si < Len(builtSheets) THEN "resolveLinks" ELSE "sheetObj"
                  /\ error' = error
    /\ UNCHANGED <<sheets, outputPath, lastId, titleToId, pendingDependencies, pendingLinks,
                   rootTopic, contentJson, result, fsDir, fsFile>>

\* build(): the callback of builtSheets.map for one sheet
BuildSheetObjStep ==
    /\ UNCHANGED zipVars
    /\ UNCHANGED calls
    /\ pc = "sheetObj"
    /\ LET r == BuildSheetObj(builtSheets[si], titleToId, lastId)
       IN /\ lastId' = r.lastId
          /\ IF Has(r.err)
             THEN /\ Fail(Val(r.err))
                  /\ UNCHANGED <<contentJson, si>>
             ELSE /\ contentJson' = Append(contentJson, r.sheetObj)
                  /\ si' = IF si < Len(builtSheets) THEN si + 1 ELSE 1
                  /\ pc' = IF si < Len(builtSheets) THEN "sheetObj" ELSE "return"
                  /\ error' = error
    /\ UNCHANGED <<sheets, outputPath, titleToId, pendingDependencies, pendingLinks,
                   rootTopic, builtSheets, result, fsDir, fsFile>>

\* Return with the two pending tables emptied once everything is resolved.
ReturnDrained ==
    /\ UNCHANGED zipVars
    /\ UNCHANGED calls
    /\ pc = "return"
    /\ result' = Some([content |-> JsonStringify(contentJson),
                       metadata |-> JsonStringify("xmind-skill"),
                       manifest |-> JsonStringify(ManifestEntries)])
    /\ pc' = "mkdir"
    /\ pendingDependencies' = EmptyMap
    /\ pendingLinks' = EmptyMap
    /\ UNCHANGED <<sheets, outputPath, lastId, titleToId, rootTopic, builtSheets, si,
                   contentJson, error, fsDir, fsFile>>

\* build(): return { content, metadata, manifest }
Return ==
    /\ UNCHANGED zipVars
    /\ UNCHANGED calls
    /\ pc = "return"
    /\ result' = Some([content |-> JsonStringify(contentJson),
                       metadata |-> JsonStringify("xmind-skill"),
                       manifest |-> JsonStringify(ManifestEntries)])
    /\ pc' = "mkdir"
    /\ UNCHANGED <<sheets, outputPath, lastId, titleToId, pendingDependencies, pendingLinks,
                   rootTopic, builtSheets, si, contentJson, error, fsDir, fsFile>>

\* main(): await mkdir(dirname(resolvedPath), {recursive: true}); it may be refused
Mkdir ==
    /\ UNCHANGED zipVars
    /\ UNCHANGED calls
    /\ pc = "mkdir"
    /\ \E ok \in BOOLEAN :
        IF ok
        THEN /\ fsDir' = TRUE
             /\ pc' = "writeFile"
             /\ error' = error
        ELSE /\ Fail(MkError(ErrMkdir, ""))
             /\ fsDir' = fsDir
    /\ UNCHANGED <<sheets, outputPath, lastId, titleToId, pendingDependencies, pendingLinks,
                   rootTopic, builtSheets, si, contentJson, result, fsFile>>

\* main(): buildZip([...]) and await writeFile(resolvedPath, zipBuffer); the
\* write may be refused
WriteFile ==
    /\ UNCHANGED zipVars
    /\ UNCHANGED calls
    /\ pc = "writeFile"
    /\ \E ok \in BOOLEAN :
        IF ok
        THEN /\ fsFile' = Some(ArchiveEntries(Val(result)))
             /\ pc' = "done"
             /\ error' = error
        ELSE /\ Fail(MkError(ErrWrite, ""))
             /\ fsFile' = fsFile
    /\ UNCHANGED <<sheets, outputPath, lastId, titleToId, pendingDependencies, pendingLinks,
                   rootTopic, builtSheets, si, contentJson, result, fsDir>>

\* -------------------------------------------------- the archive writer alone

\* buildZip(files) on the entries drawn by InitZip
BuildZipStep ==
    /\ pc = "zip"
    /\ zipBuffer' = Some(BuildZip(files))
    /\ pc' = "zipBuilt"
    /\ UNCHANGED <<sheets, outputPath, lastId, titleToId, pendingDependencies, pendingLinks,
                   rootTopic, builtSheets, si, contentJson, result, error, fsDir, fsFile,
                   files, zipRead, zipLoop, calls>>

\* A reader parses the buffer by the fixed layout.
ReadZipStep ==
    /\ pc = "zipBuilt"
    /\ zipRead' = Some(ReadZip(Val(zipBuffer)))
    /\ pc' = "zipRead"
    /\ UNCHANGED <<sheets, outputPath, lastId, titleToId, pendingDependencies, pendingLinks,
                   rootTopic, builtSheets, si, contentJson, result, error, fsDir, fsFile,
                   files, zipBuffer, zipLoop, calls>>

Next ==
    \/ Start
    \/ BuildTopicStep
    \/ ResolveDependenciesStep
    \/ ResolveLinksStep
    \/ BuildSheetObjStep
    \/ Return
    \/ Mkdir
    \/ WriteFile

Spec == Init /\ [][Next]_vars

\* ------------------------------------------------ the other input families

\* The topics of the feature family: one optional feature each.
FeatureTopics ==
    {PlainTopic("A"),
     [PlainTopic("A") EXCEPT !.taskStatus = Some("todo")],
     [PlainTopic("A") EXCEPT !.priority = Some(1)],
     [PlainTopic("A") EXCEPT !.progress = Some(0)],
     [PlainTopic("A") EXCEPT !.durationDays = Some(3)],
     [PlainTopic("A") EXCEPT !.startDate = Some(0)],
     [PlainTopic("A") EXCEPT !.dueDate = Some(1)],
     [PlainTopic("A") EXCEPT !.href = Some("https://example.org")],
     [PlainTopic("A") EXCEPT !.callouts = <<"c1", "c2">>],
     [PlainTopic("A") EXCEPT
         !.boundaries = <<[range |-> "(0,0)"]>>,
         !.summaryTopics = <<[range |-> "(0,0)", title |-> "s1"],
                             [range |-> "(0,0)", title |-> "s2"]>>]}

\* The input topic at node i of a tree shape, node j being given topic of[j].
RECURSIVE MkFeatureTopic(_, _, _)
MkFeatureTopic(parent, of, i) ==
    LET kids == ChildrenOf(parent, i)
    IN [of[i] EXCEPT !.children = [k \in 1..Len(kids) |-> MkFeatureTopic(parent, of, kids[k])]]

\* The trees of n topics drawn from FeatureTopics.
FeatureTrees(n) ==
    {MkFeatureTopic(p, of, 1) : p \in ParentVecs(n), of \in [1..n -> FeatureTopics]}

\* The root topics of the first k sheets, sheet s holding sizes[s] topics.
RECURSIVE FeatureRoots(_, _)
FeatureRoots(sizes, k) ==
    IF k = 0 THEN {<< >>}
    ELSE {Append(r, t) : r \in FeatureRoots(sizes, k - 1), t \in FeatureTrees(sizes[k])}

\* Inputs of the feature family: up to MaxSheets sheets, up to MaxTopics
\* topics in all, each topic with one optional feature.
InitSheets ==
    \E sizes \in {z \in UNION {[1..k -> 1..MaxTopics] : k \in 1..MaxSheets} :
                     SumSeq(z) <= MaxTopics} :
        \E roots \in FeatureRoots(sizes, Len(sizes)) :
            InitWith([s \in 1..Len(sizes) |-> MkSheet("Sheet", roots[s], << >>, None)])

SpecSheets == InitSheets /\ [][Next]_vars

\* Largest day number of a date, and largest durationDays, in the task family.
MaxDays == 1

OptOf(S) == {None} \cup {Some(v) : v \in S}

\* Inputs of the task family: one sheet of one topic, titled "A", with every
\* combination of the task fields.
TaskTopics ==
    {[PlainTopic("A") EXCEPT
         !.taskStatus = st, !.progress = pg, !.priority = pr, !.startDate = sd,
         !.dueDate = dd, !.durationDays = du, !.dependencies = dp] :
        st \in OptOf({"todo"}), pg \in OptOf({0, 1}), pr \in OptOf({0, 1}),
        sd \in OptOf(0..MaxDays), dd \in OptOf(0..MaxDays), du \in OptOf(0..MaxDays),
        dp \in OptOf({<< >>, <<MkDep("A")>>})}

InitTask == \E t \in TaskTopics : InitWith(<<MkSheet("Sheet", t, << >>, None)>>)

SpecTask == InitTask /\ [][Next]_vars

\* Names of the archive family, as code points: "a", "\u00e9", "a/\u00e9".
ZipNames == {<<97>>, <<233>>, <<97, 47, 233>>}
ZipBytes == {0, 255}
ZipDatas == UNION {[1..n -> ZipBytes] : n \in 0..MaxDataLen}
ZipFiles == UNION {[1..n -> [name : ZipNames, data : ZipDatas]] : n \in 0..MaxFiles}

\* Inputs of the archive family: the ordered entries given to buildZip.
InitZip ==
    /\ files \in ZipFiles
    /\ pc = "zip"
    /\ zipBuffer = None
    /\ zipRead = None
    /\ zipLoop = NoZipLoop
    /\ calls = NoCalls
    /\ sheets = << >>
    /\ outputPath = None
    /\ lastId = ThemeIdsAtLoad
    /\ titleToId = EmptyMap
    /\ pendingDependencies = EmptyMap
    /\ pendingLinks = EmptyMap
    /\ rootTopic = None
    /\ builtSheets = << >>
    /\ si = 0
    /\ contentJson = << >>
    /\ result = None
    /\ error = None
    /\ fsDir = FALSE
    /\ fsFile = None

NextZip ==
    \/ BuildZipStep
    \/ ReadZipStep

SpecZip == InitZip /\ [][NextZip]_vars

\* ------------------------------------------------- reading inputs and outputs

Range(s) == {s[i] : i \in 1..Len(s)}

\* The topics of an input tree, the root first, in pre-order.
RECURSIVE InputTopicsOf(_)
InputTopicsOf(input) ==
    <<input>> \o ConcatAll([i \in 1..Len(input.children) |-> InputTopicsOf(input.children[i])])

\* The root and the attached descendants of a built tree, in pre-order: the
\* k-th of them is built from the k-th topic of the input tree.
RECURSIVE TopicsOf(_)
TopicsOf(topic) ==
    <<topic>> \o ConcatAll([i \in 1..Len(AttachedOf(topic)) |-> TopicsOf(AttachedOf(topic)[i])])

AllInputTopics == ConcatAll([s \in 1..Len(sheets) |-> InputTopicsOf(sheets[s].rootTopic)])
InputTitles == {t.title : t \in Range(AllInputTopics)}
InputTopicsTitled(title) == {k \in 1..Len(AllInputTopics) : AllInputTopics[k].title = title}

\* The content document build() returned.
Doc == Val(result).content.json
DocTopics == ConcatAll([s \in 1..Len(Doc) |-> TopicsOf(Doc[s].rootTopic)])
IdsTitled(title) == {t.id : t \in {x \in Range(DocTopics) : x.title = title}}

BuildErrors == {ErrDependency, ErrLink, ErrRelSource, ErrRelTarget}

\* ------------------------------------------------------------------ claims

\* C1: when build() returns, every topic declared with linkToTopic = T, T being
\* the title of exactly one topic of the input, has href "xmind:#" followed by
\* the identifier of that topic, wherever that topic stands (earlier, later in
\* the same sheet, or in another sheet); and link resolution never fails on a
\* title that a topic of the input carries.
C1_LinkResolvesToTarget ==
    /\ Has(result) =>
         \A k \in 1..Len(AllInputTopics) :
            LET a == AllInputTopics[k]
            IN (Has(a.linkToTopic) /\ Cardinality(InputTopicsTitled(Val(a.linkToTopic))) = 1)
                 => \E b \in InputTopicsTitled(Val(a.linkToTopic)) :
                       DocTopics[k].href = Some([prefix |-> "xmind:#", id |-> Some(DocTopics[b].id)])
    /\ (Has(error) /\ Val(error).kind = ErrLink) => Val(error).title \notin InputTitles

\* C1 witness: build() returned for an input whose first sheet is the topic
\* "A" linking to "B" and whose second sheet is the only topic titled "B".
C1_Witness ==
    /\ Has(result)
    /\ Len(sheets) = 2
    /\ sheets[1].rootTopic.title = "A"
    /\ sheets[1].rootTopic.linkToTopic = Some("B")
    /\ sheets[2].rootTopic.title = "B"
    /\ Doc[1].rootTopic.href = Some([prefix |-> "xmind:#", id |-> Some(Doc[2].rootTopic.id)])

\* C2: when build() returns, every declared relationship {sourceTitle X,
\* targetTitle Y} is emitted, in order, with end1Id the identifier of a topic
\* titled X and end2Id the identifier of a topic titled Y, in whichever sheet
\* those topics are; and no relationship fails on a title that a topic of the
\* input carries.
C2_RelationshipEndpoints ==
    /\ Has(result) =>
         \A s \in 1..Len(sheets) :
            /\ Len(Doc[s].relationships) = Len(sheets[s].relationships)
            /\ \A j \in 1..Len(sheets[s].relationships) :
                 /\ Doc[s].relationships[j].end1Id \in IdsTitled(sheets[s].relationships[j].sourceTitle)
                 /\ Doc[s].relationships[j].end2Id \in IdsTitled(sheets[s].relationships[j].targetTitle)
    /\ (Has(error) /\ Val(error).kind \in {ErrRelSource, ErrRelTarget})
         => Val(error).title \notin InputTitles

\* C2 witness: build() returned for an input whose first sheet declares the
\* relationship A -> B, "A" being a topic of the first sheet and "B" a topic of
\* the second only.
C2_Witness ==
    /\ Has(result)
    /\ Len(sheets) = 2
    /\ sheets[1].rootTopic.title = "A"
    /\ sheets[2].rootTopic.title = "B"
    /\ Len(sheets[1].relationships) = 1
    /\ sheets[1].relationships[1] = [sourceTitle |-> "A", targetTitle |-> "B"]
    /\ Doc[1].relationships[1].end1Id = Doc[1].rootTopic.id
    /\ Doc[1].relationships[1].end2Id = Doc[2].rootTopic.id

\* C3: a dependency is resolved against the topics of all sheets: the build
\* never fails with "Dependency target not found" on a title that a topic of
\* the input carries, a topic of a later sheet included.
C3_DependencyResolvesAcrossSheets ==
    (Has(error) /\ Val(error).kind = ErrDependency) => Val(error).title \notin InputTitles

\* The references of the input that name a title no topic carries, each with
\* the error kind that reports it.
DanglingRefs ==
    {<<ErrLink, Val(t.linkToTopic)>> :
        t \in {x \in Range(AllInputTopics) :
                 Has(x.linkToTopic) /\ Val(x.linkToTopic) \notin InputTitles}}
    \cup
    UNION {{<<ErrDependency, d.targetTitle>> :
              d \in {y \in Range(Val(t.dependencies)) : y.targetTitle \notin InputTitles}} :
           t \in {x \in Range(AllInputTopics) : Has(x.dependencies)}}
    \cup
    UNION {{<<ErrRelSource, r.sourceTitle>> :
              r \in {y \in Range(sheets[s].relationships) : y.sourceTitle \notin InputTitles}} :
           s \in 1..Len(sheets)}
    \cup
    UNION {{<<ErrRelTarget, r.targetTitle>> :
              r \in {y \in Range(sheets[s].relationships) : y.targetTitle \notin InputTitles}} :
           s \in 1..Len(sheets)}

\* C4: when a link, a dependency or a relationship end of the input names a
\* title that no topic carries, build() returns no document, and the error the
\* build ends with names such a title together with the kind of the reference
\* that names it.
C4_DanglingReferenceNamed ==
    DanglingRefs # {} =>
        /\ ~Has(result)
        /\ (Has(error) /\ Val(error).kind \in BuildErrors)
             => <<Val(error).kind, Val(error).title>> \in DanglingRefs

\* C5: the output directory is created and the container written only after
\* build() has returned a document; a run that ends on a rejected path or on an
\* error of the build has created no directory and written no file.
C5_NoOutputOnFailure ==
    /\ (fsDir \/ Has(fsFile)) => Has(result)
    /\ (Has(error) /\ Val(error).kind \in BuildErrors \cup {ErrNoPath, ErrBadPath})
         => (~fsDir /\ ~Has(fsFile))

\* C5 witness: a run that passed the path check, built every tree, resolved
\* every link and then failed on a relationship target, with nothing on disk.
C5_Witness ==
    /\ pc = "exit1"
    /\ Has(error)
    /\ Val(error).kind = ErrRelTarget
    /\ Len(builtSheets) = 2
    /\ ~fsDir
    /\ ~Has(fsFile)

\* Every topic record of the returned document: the roots, the attached
\* topics, the callout records and the synthesized summary topics.
TopicRecordIds ==
    ConcatAll([k \in 1..Len(DocTopics) |->
        <<DocTopics[k].id>>
        \o [i \in 1..Len(CalloutOf(DocTopics[k])) |-> CalloutOf(DocTopics[k])[i].id]
        \o [i \in 1..Len(DocTopics[k].summary) |-> DocTopics[k].summary[i].id]])

\* C6: in the document build() returns, the identifiers of all topic records
\* (root, attached, callout, summary topic), over all sheets, are pairwise
\* distinct.
C6_TopicIdsDistinct ==
    Has(result) =>
        \A ids \in {TopicRecordIds} :
            \A i, j \in 1..Len(ids) : i # j => ids[i] # ids[j]

\* C6 witness: a returned document of two sheets, one topic with two callouts
\* and one with two summary topics.
C6_Witness ==
    /\ Has(result)
    /\ Len(Doc) = 2
    /\ Len(CalloutOf(Doc[1].rootTopic)) = 2
    /\ Len(Doc[2].rootTopic.summary) = 2

\* Whether the sheet document carries the working-calendar extension block.
HasCalendarBlock(sheetObj) ==
    \E i \in 1..Len(sheetObj.extensions) : sheetObj.extensions[i].provider = WorkingDayProvider

\* C7 as stated: a sheet document carries the working-calendar block if and
\* only if some topic of the sheet's tree has durationDays, startDate or dueDate.
C7_CalendarIffDatesOrDuration ==
    Has(result) =>
        \A s \in 1..Len(sheets) :
            HasCalendarBlock(Doc[s]) <=>
                \E t \in Range(InputTopicsOf(sheets[s].rootTopic)) :
                    Has(t.durationDays) \/ Has(t.startDate) \/ Has(t.dueDate)

\* C7 amended: a sheet document carries the working-calendar block if and only
\* if some topic of the sheet's tree has durationDays, startDate, dueDate or
\* progress.
C7_CalendarIffPlanned ==
    Has(result) =>
        \A s \in 1..Len(sheets) :
            HasCalendarBlock(Doc[s]) <=>
                \E t \in Range(InputTopicsOf(sheets[s].rootTopic)) :
                    Has(t.durationDays) \/ Has(t.startDate) \/ Has(t.dueDate) \/ Has(t.progress)

\* C7 witness: a returned sheet document with the block, whose root has no
\* task field and whose only child has progress and nothing else.
C7_Witness ==
    /\ Has(result)
    /\ Len(sheets) = 1
    /\ ~HasTaskProps(sheets[1].rootTopic)
    /\ Len(sheets[1].rootTopic.children) = 1
    /\ sheets[1].rootTopic.children[1] = [PlainTopic("A") EXCEPT !.progress = Some(0)]
    /\ HasCalendarBlock(Doc[1])

\* C8: a topic given durationDays = d and neither startDate nor dueDate is
\* built with one task block whose duration is d * 86400000 and which has no
\* start and no due.
C8_DurationOnlyTask ==
    Has(result) =>
        \A k \in 1..Len(AllInputTopics) :
            LET a == AllInputTopics[k]
            IN (Has(a.durationDays) /\ ~Has(a.startDate) /\ ~Has(a.dueDate)) =>
                 /\ Len(DocTopics[k].extensions) = 1
                 /\ DocTopics[k].extensions[1].provider = "org.xmind.ui.task"
                 /\ DocTopics[k].extensions[1].content.duration = <<Val(a.durationDays) * 86400000>>
                 /\ DocTopics[k].extensions[1].content.start = << >>
                 /\ DocTopics[k].extensions[1].content.due = << >>

\* C8 witness: a returned document whose topic was given durationDays = 1,
\* a progress and a dependency, and no date.
C8_Witness ==
    /\ Has(result)
    /\ sheets[1].rootTopic.durationDays = Some(1)
    /\ sheets[1].rootTopic.startDate = None
    /\ sheets[1].rootTopic.dueDate = None
    /\ Has(sheets[1].rootTopic.progress)
    /\ Has(sheets[1].rootTopic.dependencies)
    /\ Doc[1].rootTopic.extensions[1].content.duration = <<86400000>>

\* C9: the reader gets back, from the bytes buildZip returns, the names that
\* were given, in the order given, each with the payload bytes that were given.
C9_ArchiveRoundTrip ==
    Has(zipRead) =>
        /\ Val(zipRead).ok
        /\ Len(Val(zipRead).entries) = Len(files)
        /\ \A i \in 1..Len(files) :
             /\ Val(zipRead).entries[i].name = files[i].name
             /\ Val(zipRead).entries[i].data = files[i].data

\* C9 witness: two entries with different names, one of them not ASCII, and
\* different non-empty payloads, read back.
C9_Witness ==
    /\ Has(zipRead)
    /\ Len(files) = 2
    /\ files[1].name = <<97, 47, 233>>
    /\ files[2].name = <<233>>
    /\ files[1].data = <<255>>
    /\ files[2].data = <<0>>
    /\ Val(zipRead).entries[2].data = <<0>>

\* C10: the keys of the manifest document are exactly the names of the
\* entries written to the container.
C10_ManifestListsEntries ==
    Has(fsFile) =>
        Val(result).manifest.json = {Val(fsFile)[i].name : i \in 1..Len(Val(fsFile))}

\* C11: once main() has taken an output path that is missing or does not end
\* with .xmind, the run has ended with the error of that path, no topic was
\* built, build() returned nothing, and no directory or file was created.
C11_BadPathRejectedFirst ==
    (pc # "start" /\ (~Has(outputPath) \/ ~EndsWithXmind(Val(outputPath)))) =>
        /\ pc = "exit1"
        /\ Has(error)
        /\ Val(error).kind = (IF Has(outputPath) THEN ErrBadPath ELSE ErrNoPath)
        /\ lastId = ThemeIdsAtLoad
        /\ rootTopic = None
        /\ builtSheets = << >>
        /\ ~Has(result)
        /\ ~fsDir
        /\ ~Has(fsFile)

\* C11 witness: a run given two sheets and a path not ending with .xmind,
\* ended on the path error.
C11_Witness ==
    /\ pc = "exit1"
    /\ Len(sheets) = 2
    /\ outputPath = Some("out/map.txt")
    /\ Has(error)
    /\ Val(error).kind = ErrBadPath
    /\ lastId = ThemeIdsAtLoad

\* ------------------------------------------------ the topic-field family

\* A container written by an earlier run at the output path: an empty map.
ExistingFile ==
    ArchiveEntries([content |-> JsonStringify(<< >>),
                    metadata |-> JsonStringify("xmind-skill"),
                    manifest |-> JsonStringify(ManifestEntries)])

\* Root topics over the link fields, the attachment, the position and the
\* title: "" is a title that is missing or empty.
FieldTopics ==
    {[PlainTopic(t) EXCEPT !.href = h, !.linkToTopic = l, !.attachment = a, !.position = p] :
        t \in {"A", ""}, h \in OptOf({"https://example.org"}), l \in OptOf({"A", "B", "Z"}),
        a \in OptOf({"/in/f1", "/in/f2"}), p \in OptOf({"(0,130)"})}

\* The children a root of the family may have: none, or one topic "B",
\* plain or with an attachment.
FieldChildren ==
    {<< >>} \cup {<<[PlainTopic("B") EXCEPT !.attachment = a]>> : a \in OptOf({"/in/f1", "/in/f3"})}

\* Inputs of the topic-field family: one sheet, with or without free
\* positioning, and an output path where a file may already exist.
InitFields ==
    \E root \in FieldTopics, kids \in FieldChildren, fp \in BOOLEAN,
       file \in {None, Some(ExistingFile)} :
        InitWithDisk(<<[MkSheet("Sheet", [root EXCEPT !.children = kids], << >>, None)
                          EXCEPT !.freePositioning = fp]>>,
                     file)

SpecFields == InitFields /\ [][Next]_vars

\* C12: a topic given both href and linkToTopic keeps the external link: no
\* pending internal link is recorded under its identifier, and in the document
\* build() returns its href is the external link.
C12_ExternalLinkWins ==
    /\ rootTopic # None =>
         \A k \in 1..Len(TopicsOf(Val(rootTopic))) :
            LET a == InputTopicsOf(sheets[si].rootTopic)[k]
            IN (Has(a.href) /\ Has(a.linkToTopic))
                 => ~Has(MapGet(pendingLinks, TopicsOf(Val(rootTopic))[k].id))
    /\ Has(result) =>
         \A k \in 1..Len(AllInputTopics) :
            LET a == AllInputTopics[k]
            IN (Has(a.href) /\ Has(a.linkToTopic))
                 => DocTopics[k].href = Some(ExternalHref(Val(a.href)))

\* The bytes of the files the attachments of the family name: /in/f1 and
\* /in/f2 hold the same bytes, /in/f3 other bytes.
AttachmentBytes(path) == IF path = "/in/f3" THEN "bytes-y" ELSE "bytes-x"

\* The resource path of an embedded attachment: a fixed directory followed by
\* the hash of the bytes, the hash being taken as free of collisions.
ResourcePath(bytes) == "resources/" \o bytes

\* C14: in the container written, every topic given an attachment has href
\* "xap:" followed by the resource path of the attached file's bytes, and the
\* container has an entry under that path holding those bytes.
C14_AttachmentEmbedded ==
    (pc = "done" /\ Has(result)) =>
        \A k \in 1..Len(AllInputTopics) :
            LET a == AllInputTopics[k]
            IN Has(a.attachment) =>
                 /\ DocTopics[k].href
                      = Some(ExternalHref("xap:" \o ResourcePath(AttachmentBytes(Val(a.attachment)))))
                 /\ \E i \in 1..Len(Val(fsFile)) :
                       Val(fsFile)[i].name = ResourcePath(AttachmentBytes(Val(a.attachment)))

\* A malformed input: a topic without a title, a topic with both an
\* attachment and an external link, or a topic with a position in a sheet
\* that does not enable free positioning.
Malformed ==
    \E s \in 1..Len(sheets) :
        \E t \in Range(InputTopicsOf(sheets[s].rootTopic)) :
            \/ t.title = ""
            \/ Has(t.attachment) /\ Has(t.href)
            \/ Has(t.position) /\ ~sheets[s].freePositioning

\* The kind of the error the specification raises for a malformed input.
ErrInvalidInput == "Invalid input"

\* C18: a run given a malformed input and an accepted path ends with an
\* invalid-input error; build() returns no document and no container is written.
C18_MalformedInputRejected ==
    (Malformed /\ pc # "start" /\ Has(outputPath) /\ EndsWithXmind(Val(outputPath))) =>
        /\ ~Has(result)
        /\ pc \notin {"mkdir", "writeFile", "done"}
        /\ Has(error) => Val(error).kind = ErrInvalidInput

\* C20: a file that exists at the output path is never replaced or modified.
C20_ExistingFileKept == [][Has(fsFile) => fsFile' = fsFile]_vars

\* ------------------------------------------------ the sheet-field family

\* A detached topic of the family: titled "D", with a position.
DetachedTopic == [PlainTopic("D") EXCEPT !.position = Some("(0,130)")]

\* Sheets over the sheet fields: the root "A"; no free positioning, free
\* positioning, or free positioning with the detached topic "D"; no
\* relationship or one between "A" and "D"; no theme or the theme "business".
FieldSheets ==
    {[MkSheet("Sheet", PlainTopic("A"), rels, theme)
         EXCEPT !.freePositioning = fd[1], !.detachedTopics = fd[2]] :
        fd \in {<<FALSE, << >> >>, <<TRUE, << >> >>, <<TRUE, <<DetachedTopic>> >>},
        rels \in {<< >>,
                  <<[sourceTitle |-> "A", targetTitle |-> "D"]>>,
                  <<[sourceTitle |-> "D", targetTitle |-> "A"]>>},
        theme \in OptOf({"business"})}

\* Inputs of the sheet-field family: up to MaxSheets sheets of FieldSheets.
InitSheetFields ==
    \E n \in 1..MaxSheets : \E sh \in [1..n -> FieldSheets] : InitWith(sh)

SpecSheetFields == InitSheetFields /\ [][Next]_vars

\* The titles of the detached topics of the sheets that enable free positioning.
DetachedTitles ==
    UNION {{t.title : t \in Range(sheets[s].detachedTopics)} :
             s \in {x \in 1..Len(sheets) : sheets[x].freePositioning}}

\* C13: the detached topics of a sheet with free positioning are built and
\* bound in the title index: no relationship fails on the title of a detached
\* topic, and when build() returns every such title has an identifier.
C13_DetachedTopicsBuilt ==
    /\ (Has(error) /\ Val(error).kind \in {ErrRelSource, ErrRelTarget})
         => Val(error).title \notin DetachedTitles
    /\ Has(result) => \A t \in DetachedTitles : Has(MapGet(titleToId, t))

\* The generated identifiers of the records of the returned document, record
\* by record: per sheet, the sheet, the style records of its theme, its
\* relationships, and per topic the topic, its boundaries, its summaries, its
\* summary topics and its callouts.
GeneratedIds ==
    ConcatAll([s \in 1..Len(Doc) |->
        <<Doc[s].id>>
        \o Doc[s].theme
        \o [i \in 1..Len(Doc[s].relationships) |-> Doc[s].relationships[i].id]
        \o ConcatAll([k \in 1..Len(TopicsOf(Doc[s].rootTopic)) |->
             LET t == TopicsOf(Doc[s].rootTopic)[k]
             IN <<t.id>>
                \o [i \in 1..Len(t.boundaries) |-> t.boundaries[i].id]
                \o [i \in 1..Len(t.summaries) |-> t.summaries[i].id]
                \o [i \in 1..Len(t.summary) |-> t.summary[i].id]
                \o [i \in 1..Len(CalloutOf(t)) |-> CalloutOf(t)[i].id]])])

\* C15: in the document build() returns no two records carry the same
\* generated identifier.
C15_NoIdReused ==
    Has(result) =>
        \A ids \in {GeneratedIds} :
            \A i, j \in 1..Len(ids) : i # j => ids[i] # ids[j]

\* The identifier of the topic titled `title` that is built last: topics are
\* built in pre-order within a sheet, the sheets in input order.
LastBuiltId(title) ==
    DocTopics[CHOOSE k \in InputTopicsTitled(title) : \A j \in InputTopicsTitled(title) : j <= k].id

\* C17: in the document build() returns, every link, every dependency and
\* every relationship end naming a title resolves to the identifier of the
\* topic with that title that is built last in the whole build.
C17_LastWriterWins ==
    Has(result) =>
        /\ \A k \in 1..Len(AllInputTopics) :
              LET a == AllInputTopics[k]
              IN /\ Has(a.linkToTopic) =>
                       DocTopics[k].href = Some(InternalHref(LastBuiltId(Val(a.linkToTopic))))
                 /\ (Has(a.dependencies) /\ Len(Val(a.dependencies)) > 0) =>
                       \A i \in 1..Len(Val(a.dependencies)) :
                          Val(DocTopics[k].extensions[1].content.dependencies)[i].id
                             = LastBuiltId(Val(a.dependencies)[i].targetTitle)
        /\ \A s \in 1..Len(sheets) :
              \A j \in 1..Len(sheets[s].relationships) :
                 /\ Doc[s].relationships[j].end1Id = LastBuiltId(sheets[s].relationships[j].sourceTitle)
                 /\ Doc[s].relationships[j].end2Id = LastBuiltId(sheets[s].relationships[j].targetTitle)

\* ------------------------------------------------------- the tree family

\* Largest number of topics in a tree of the tree family.
MaxTreeTopics == 4

\* The input topic at node i of a tree shape, node j titled title[j].
RECURSIVE MkTitledTopic(_, _, _)
MkTitledTopic(parent, title, i) ==
    LET kids == ChildrenOf(parent, i)
    IN [PlainTopic(title[i]) EXCEPT
           !.children = [k \in 1..Len(kids) |-> MkTitledTopic(parent, title, kids[k])]]

\* Inputs of the tree family: one sheet, every ordered tree of up to
\* MaxTreeTopics topics titled "A" or "B", the root with or without a callout.
InitTree ==
    \E n \in 1..MaxTreeTopics :
        \E p \in ParentVecs(n), title \in [1..n -> TopicTitles], cs \in {<< >>, <<"c1">>} :
            InitWith(<<MkSheet("Sheet",
                               [MkTitledTopic(p, title, 1) EXCEPT !.callouts = cs],
                               << >>, None)>>)

SpecTree == InitTree /\ [][Next]_vars

\* The built topic mirrors the input topic: the same title, one attached
\* topic per input child, in the input order, each mirroring its child; no
\* children field when the input has neither children nor callouts.
RECURSIVE Mirrors(_, _)
Mirrors(built, input) ==
    /\ built.title = input.title
    /\ Len(AttachedOf(built)) = Len(input.children)
    /\ (Len(input.children) > 0) = (Has(built.children) /\ Has(Val(built.children).attached))
    /\ (Len(input.children) = 0 /\ Len(input.callouts) = 0) => built.children = None
    /\ \A i \in 1..Len(input.children) : Mirrors(AttachedOf(built)[i], input.children[i])

\* C19: in the document build() returns, the tree of every sheet mirrors the
\* input tree of that sheet.
C19_TreeMirrorsInput ==
    Has(result) => \A s \in 1..Len(sheets) : Mirrors(Doc[s].rootTopic, sheets[s].rootTopic)

\* C19 witness: a returned document for the root "A" with the children "B"
\* and "A", in that order, the first of them with a child "B" of its own.
C19_Witness ==
    /\ Has(result)
    /\ Len(sheets[1].rootTopic.children) = 2
    /\ sheets[1].rootTopic.children[1].title = "B"
    /\ sheets[1].rootTopic.children[2].title = "A"
    /\ Len(sheets[1].rootTopic.children[1].children) = 1
    /\ Len(AttachedOf(Doc[1].rootTopic)) = 2
    /\ AttachedOf(Doc[1].rootTopic)[1].title = "B"
    /\ AttachedOf(Doc[1].rootTopic)[2].title = "A"
    /\ AttachedOf(Doc[1].rootTopic)[2].children = None
    /\ Len(AttachedOf(AttachedOf(Doc[1].rootTopic)[1])) = 1

\* ------------------------------------------------------ the calls family

\* A caller that makes several calls of build(): main() makes one on a
\* builder it has just constructed; the class allows any number on one
\* builder.  A call is [sheets, fresh]: the input, and whether the caller
\* constructs a new builder for it.

\* One-sheet inputs of the calls family: a root titled "A" or "B", with or
\* without a child "B", a link and a dependency by title on the root, and
\* a relationship from "A" to "B".
CallInputs ==
    {<<MkSheet("Sheet",
               [PlainTopic(t) EXCEPT !.children = kids,
                                      !.linkToTopic = link,
                                      !.dependencies = deps],
               rels, None)>> :
        t \in TopicTitles,
        kids \in {<< >>, <<PlainTopic("B")>>},
        link \in OptOf(TopicTitles),
        deps \in OptOf({<<MkDep(x)>> : x \in TopicTitles}),
        rels \in {<< >>, <<MkRel([source |-> "A", target |-> "B"])>>}}

\* The caller is about to build s2 on a new builder, then s1 on a new
\* builder, then s2 again on the builder that has built s1.
InitCalls ==
    \E s1, s2 \in CallInputs :
        /\ sheets = << >>
        /\ pc = "call"
        /\ outputPath = None
        /\ lastId = ThemeIdsAtLoad
        /\ titleToId = EmptyMap
        /\ pendingDependencies = EmptyMap
        /\ pendingLinks = EmptyMap
        /\ rootTopic = None
        /\ builtSheets = << >>
        /\ si = 0
        /\ contentJson = << >>
        /\ result = None
        /\ error = None
        /\ fsDir = FALSE
        /\ fsFile = None
        /\ files = << >>
        /\ zipBuffer = None
        /\ zipRead = None
    /\ zipLoop = NoZipLoop
        /\ calls = [todo |-> <<[sheets |-> s2, fresh |-> TRUE],
                               [sheets |-> s1, fresh |-> TRUE],
                               [sheets |-> s2, fresh |-> FALSE]>>,
                    base |-> 0,
                    past |-> << >>]

\* The caller takes the outcome of the call that has ended, if any, and
\* makes the next call: `new XMindBuilder()` when the call asks for a new
\* builder (the three maps are new and empty), then `.build(input)`.
CallBuild ==
    /\ pc \in {"call", "mkdir", "exit1"}
    /\ calls.todo # << >>
    /\ LET c == Head(calls.todo)
       IN /\ sheets' = c.sheets
          /\ IF c.fresh
             THEN /\ titleToId' = EmptyMap
                  /\ pendingDependencies' = EmptyMap
                  /\ pendingLinks' = EmptyMap
             ELSE UNCHANGED <<titleToId, pendingDependencies, pendingLinks>>
    /\ calls' = [todo |-> Tail(calls.todo),
                 base |-> lastId,
                 past |-> IF pc = "call"
                          THEN calls.past
                          ELSE Append(calls.past,
                                      [base |-> calls.base, result |-> result, error |-> error])]
    /\ result' = None
    /\ error' = None
    /\ pc' = "build"
    /\ UNCHANGED <<outputPath, lastId, rootTopic, builtSheets, si, contentJson, fsDir, fsFile>>
    /\ UNCHANGED zipVars

\* build() entered with the three maps left as the previous call left them.
BuildEntryNoClear ==
    /\ pc = "build"
    /\ builtSheets' = << >>
    /\ contentJson' = << >>
    /\ rootTopic' = None
    /\ si' = 1
    /\ pc' = IF Len(sheets) > 0 THEN "buildTopic" ELSE "return"
    /\ UNCHANGED <<titleToId, pendingDependencies, pendingLinks>>
    /\ UNCHANGED <<sheets, outputPath, lastId, result, error, fsDir, fsFile, calls>>
    /\ UNCHANGED zipVars

\* build() entered with the two pending tables cleared and the title index
\* left as the previous call left it.
BuildEntryKeepIndex ==
    /\ pc = "build"
    /\ titleToId' = titleToId
    /\ pendingDependencies' = EmptyMap
    /\ pendingLinks' = EmptyMap
    /\ builtSheets' = << >>
    /\ contentJson' = << >>
    /\ rootTopic' = None
    /\ si' = 1
    /\ pc' = IF Len(sheets) > 0 THEN "buildTopic" ELSE "return"
    /\ UNCHANGED <<sheets, outputPath, lastId, result, error, fsDir, fsFile, calls>>
    /\ UNCHANGED zipVars

\* build(), entry: the three maps are cleared, builtSheets = []
BuildEntry ==
    /\ pc = "build"
    /\ titleToId' = EmptyMap
    /\ pendingDependencies' = EmptyMap
    /\ pendingLinks' = EmptyMap
    /\ builtSheets' = << >>
    /\ contentJson' = << >>
    /\ rootTopic' = None
    /\ si' = 1
    /\ pc' = IF Len(sheets) > 0 THEN "buildTopic" ELSE "return"
    /\ UNCHANGED <<sheets, outputPath, lastId, result, error, fsDir, fsFile, calls>>
    /\ UNCHANGED zipVars

NextCalls ==
    \/ CallBuild
    \/ BuildEntry
    \/ BuildTopicStep
    \/ ResolveDependenciesStep
    \/ ResolveLinksStep
    \/ BuildSheetObjStep
    \/ Return

SpecCalls == InitCalls /\ [][NextCalls]_vars

\* A built topic with every identifier generated for it counted from d: two
\* documents that differ only in the identifiers generateId() happened to
\* return are equal once each is counted from the start of its own call.
RECURSIVE ShiftTopic(_, _)
ShiftTopic(t, d) ==
    [id |-> t.id - d,
     title |-> t.title,
     href |-> IF Has(t.href) /\ Has(Val(t.href).id)
              THEN Some(InternalHref(Val(Val(t.href).id) - d))
              ELSE t.href,
     extensions |->
        [e \in 1..Len(t.extensions) |->
            [t.extensions[e] EXCEPT
                !.content.dependencies =
                    IF Has(@)
                    THEN Some([i \in 1..Len(Val(@)) |-> [Val(@)[i] EXCEPT !.id = @ - d]])
                    ELSE @]],
     boundaries |-> [i \in 1..Len(t.boundaries) |-> [t.boundaries[i] EXCEPT !.id = @ - d]],
     summaries |-> [i \in 1..Len(t.summaries) |->
                      [t.summaries[i] EXCEPT !.id = @ - d, !.topicId = @ - d]],
     summary |-> [i \in 1..Len(t.summary) |-> [t.summary[i] EXCEPT !.id = @ - d]],
     children |->
        IF Has(t.children)
        THEN Some([attached |->
                      IF Has(Val(t.children).attached)
                      THEN Some([i \in 1..Len(AttachedOf(t)) |-> ShiftTopic(AttachedOf(t)[i], d)])
                      ELSE None,
                   callout |->
                      IF Has(Val(t.children).callout)
                      THEN Some([i \in 1..Len(CalloutOf(t)) |->
                                   [CalloutOf(t)[i] EXCEPT !.id = @ - d]])
                      ELSE None])
        ELSE None]

\* A sheet of the document with its identifiers counted from d; the theme
\* identifiers are those of module load and stay as they are.
ShiftSheet(sh, d) ==
    [sh EXCEPT !.id = @ - d,
               !.rootTopic = ShiftTopic(@, d),
               !.relationships =
                   [i \in 1..Len(@) |->
                       [id |-> @[i].id - d, end1Id |-> @[i].end1Id - d, end2Id |-> @[i].end2Id - d]]]

\* What a call of build() gave its caller: the error thrown, or the three
\* documents returned, the identifiers counted from the start of the call.
Outcome(base, res, err) ==
    [error |-> err,
     doc |-> IF Has(res)
             THEN LET d == Val(res).content.json
                  IN Some([content |-> [s \in 1..Len(d) |-> ShiftSheet(d[s], base)],
                           metadata |-> Val(res).metadata,
                           manifest |-> Val(res).manifest])
             ELSE None]

\* The three calls have been made and the last one has ended.
CallsDone == calls.todo = << >> /\ Len(calls.past) = 2 /\ pc \in {"mkdir", "exit1"}

\* C16: build(s2) on a builder that has already built s1 ends as build(s2)
\* on a new builder does: the same error, or the same three documents up to
\* the identifiers generateId() returned.
C16_BuildsIndependent ==
    CallsDone =>
        Outcome(calls.base, result, error)
            = Outcome(calls.past[1].base, calls.past[1].result, calls.past[1].error)

\* C16 witness: s1 (root "B") was built without error, and s2 (root "A"
\* linking to "B", a title only s1 defines) then failed on the same builder
\* with the dangling link, as it had on a new builder.
C16_Witness ==
    /\ CallsDone
    /\ sheets[1].rootTopic.title = "A"
    /\ sheets[1].rootTopic.children = << >>
    /\ sheets[1].rootTopic.linkToTopic = Some("B")
    /\ error = Some(MkError(ErrLink, "B"))
    /\ calls.past[1].error = Some(MkError(ErrLink, "B"))
    /\ Has(calls.past[2].result)
    /\ Val(calls.past[2].result).content.json[1].rootTopic.title = "B"

\* ------------------------------------------------- order of the resolution

\* The title references of the input, in input order: the sheets in order,
\* the topics of a sheet in pre-order, the dependencies of a topic in list
\* order, the relationships of a sheet in list order, the source of a
\* relationship before its target.
InputDependencyRefs ==
    ConcatAll([k \in 1..Len(AllInputTopics) |->
                 IF Has(AllInputTopics[k].dependencies)
                 THEN [i \in 1..Len(Val(AllInputTopics[k].dependencies)) |->
                         MkError(ErrDependency, Val(AllInputTopics[k].dependencies)[i].targetTitle)]
                 ELSE << >>])

InputLinkRefs ==
    ConcatAll([k \in 1..Len(AllInputTopics) |->
                 IF Has(AllInputTopics[k].linkToTopic)
                 THEN <<MkError(ErrLink, Val(AllInputTopics[k].linkToTopic))>>
                 ELSE << >>])

InputRelationshipRefs ==
    ConcatAll([s \in 1..Len(sheets) |->
                 ConcatAll([j \in 1..Len(sheets[s].relationships) |->
                              <<MkError(ErrRelSource, sheets[s].relationships[j].sourceTitle),
                                MkError(ErrRelTarget, sheets[s].relationships[j].targetTitle)>>])])

\* The dangling references in the order the specification resolves them:
\* the dependencies, then the links, then the relationship ends.
DanglingInOrder ==
    SelectSeq(InputDependencyRefs \o InputLinkRefs \o InputRelationshipRefs,
              LAMBDA r : r.title \notin InputTitles)

\* C21: when the input holds dangling references, the error the build ends
\* with is the one of the first dangling dependency in input order if there
\* is one, else of the first dangling link, else of the first dangling
\* relationship end.
C21_FirstDanglingReported ==
    \A d \in {DanglingInOrder} :
        (Len(d) > 0 /\ pc = "exit1" /\ Val(error).kind \in BuildErrors) => Val(error) = d[1]

\* ------------------------------------------------------- the two passes

\* A lookup of the title index has succeeded in this run: a built tree
\* holds a resolved dependency list or a resolved internal link, or a sheet
\* document holds a relationship.  (A lookup that fails ends the run.)
LookupMade ==
    \/ \E s \in 1..Len(builtSheets) :
          \E t \in Range(TopicsOf(builtSheets[s].rootTopic)) :
             \/ Len(t.extensions) > 0 /\ Has(t.extensions[1].content.dependencies)
             \/ Has(t.href) /\ Has(Val(t.href).id)
    \/ \E s \in 1..Len(contentJson) : Len(contentJson[s].relationships) > 0

\* C22: the first pass is complete before the second begins: once a lookup
\* of the title index has been made to resolve a reference, the title index
\* is not written again.
C22_IndexFrozenAfterLookup == [][LookupMade => titleToId' = titleToId]_vars

\* --------------------------------------------- the directory of the archive

\* The size of the local record of f and of its central directory record.
LocalSize(f) == 30 + Len(Utf8Encode(f.name)) + Len(DeflateRaw(f.data))
CentralSize(f) == 46 + Len(Utf8Encode(f.name))

\* The directory of buf agrees with the records of the entries fs: the
\* i-th central record points at the i-th local record and repeats its
\* name, CRC and sizes; the end record counts the entries twice and gives
\* the size and the offset of the central directory.
DirectoryConsistent(buf, fs) ==
    LET n == Len(fs)
        local[i \in 1..(n + 1)] == IF i = 1 THEN 0 ELSE local[i - 1] + LocalSize(fs[i - 1])
        central[i \in 1..(n + 1)] ==
            IF i = 1 THEN local[n + 1] ELSE central[i - 1] + CentralSize(fs[i - 1])
        eocd == central[n + 1]
    IN /\ Len(buf) = eocd + 22
       /\ \A i \in 1..n :
            LET l == local[i]
                c == central[i]
                nameLen == Len(Utf8Encode(fs[i].name))
            IN /\ Slice(buf, l, 4) = U32LE(67324752)
               /\ Slice(buf, c, 4) = U32LE(33639248)
               /\ RdU32(buf, c + 42) = l
               /\ RdU16(buf, l + 26) = nameLen
               /\ RdU16(buf, c + 28) = nameLen
               /\ Slice(buf, l + 30, nameLen) = Utf8Encode(fs[i].name)
               /\ Slice(buf, c + 46, nameLen) = Utf8Encode(fs[i].name)
               /\ Slice(buf, c + 16, 4) = Slice(buf, l + 14, 4)
               /\ RdU32(buf, l + 18) = Len(DeflateRaw(fs[i].data))
               /\ RdU32(buf, c + 20) = RdU32(buf, l + 18)
               /\ RdU32(buf, l + 22) = Len(fs[i].data)
               /\ RdU32(buf, c + 24) = RdU32(buf, l + 22)
       /\ Slice(buf, eocd, 4) = U32LE(101010256)
       /\ RdU16(buf, eocd + 8) = n
       /\ RdU16(buf, eocd + 10) = n
       /\ RdU32(buf, eocd + 12) = central[n + 1] - central[1]
       /\ RdU32(buf, eocd + 16) = local[n + 1]

\* C23: in the buffer buildZip returns, the central directory and the end
\* record are consistent with the local records: offsets are the running
\* sums of the record sizes, and names, CRCs and sizes are repeated.
C23_DirectoryConsistent ==
    Has(zipBuffer) => \A buf \in {Val(zipBuffer)} : DirectoryConsistent(buf, files)

\* C23 witness: a buffer for two entries with names of different byte
\* lengths and payloads of different lengths, so that the second records
\* start at offsets other than the first ones'.
C23_Witness ==
    /\ Has(zipBuffer)
    /\ Len(files) = 2
    /\ files[1].name = <<97, 47, 233>>
    /\ files[1].data = <<255>>
    /\ files[2].name = <<97>>
    /\ files[2].data = << >>
    /\ RdU32(Val(zipBuffer), Len(Val(zipBuffer)) - 22 - 47 + 42) = 40

\* ------------------------------------- buildZip, one turn of its loop at a time

\* The RangeError of buf.writeUInt16LE / buf.writeUInt32LE.
ErrRange == "ERR_OUT_OF_RANGE"

\* compressed.length for a payload of n bytes (one stored block, as DeflateRaw)
DeflateRawLen(n) == 5 + n

\* Inputs of the wide archive family: count entries, each with a name of
\* nameLen bytes and a payload of dataLen bytes, the numbers and lengths
\* standing on both sides of what a 16-bit header field holds.
InitZipLoop ==
    \E count \in {0, 1, U16Max, U16Max + 1}, nameLen \in {1, U16Max, U16Max + 1},
       dataLen \in {0, 1} :
        /\ zipLoop = [NoZipLoop EXCEPT !.count = count, !.nameLen = nameLen,
                                       !.dataLen = dataLen]
        /\ pc = "zipLoop"
        /\ files = << >>
        /\ zipBuffer = None
        /\ zipRead = None
        /\ calls = NoCalls
        /\ sheets = << >>
        /\ outputPath = None
        /\ lastId = ThemeIdsAtLoad
        /\ titleToId = EmptyMap
        /\ pendingDependencies = EmptyMap
        /\ pendingLinks = EmptyMap
        /\ rootTopic = None
        /\ builtSheets = << >>
        /\ si = 0
        /\ contentJson = << >>
        /\ result = None
        /\ error = None
        /\ fsDir = FALSE
        /\ fsFile = None

\* buildZip, one turn of `for (const {name, data} of files)`: the local
\* header is written (nameBytes.length in 16 bits), then the central header
\* (`offset` in 32 bits), then offset += entry.length.
ZipLoopStep ==
    /\ pc = "zipLoop"
    /\ zipLoop.i < zipLoop.count
    /\ IF ~FitsU16(zipLoop.nameLen) \/ ~FitsU32(zipLoop.offset)
       THEN /\ Fail(MkError(ErrRange, ""))
            /\ zipLoop' = zipLoop
       ELSE /\ zipLoop' =
                 [zipLoop EXCEPT
                    !.i = @ + 1,
                    !.offset = WideAdd(@, 30 + zipLoop.nameLen + DeflateRawLen(zipLoop.dataLen)),
                    !.centralDirLen = WideAdd(@, 46 + zipLoop.nameLen)]
            /\ UNCHANGED <<pc, error>>
    /\ UNCHANGED <<sheets, outputPath, lastId, titleToId, pendingDependencies, pendingLinks,
                   rootTopic, builtSheets, si, contentJson, result, fsDir, fsFile,
                   files, zipBuffer, zipRead, calls>>

\* buildZip after its loop: the end record is written (files.length twice in
\* 16 bits, centralDir.length and offset in 32 bits) and the buffer returned.
ZipEndStep ==
    /\ pc = "zipLoop"
    /\ zipLoop.i = zipLoop.count
    /\ IF ~FitsU16(zipLoop.count) \/ ~FitsU32(zipLoop.centralDirLen) \/ ~FitsU32(zipLoop.offset)
       THEN /\ Fail(MkError(ErrRange, ""))
            /\ zipLoop' = zipLoop
       ELSE /\ zipLoop' = [zipLoop EXCEPT
                              !.eocd = Some([entries |-> zipLoop.count,
                                             total |-> zipLoop.count,
                                             cdSize |-> zipLoop.centralDirLen,
                                             cdOffset |-> zipLoop.offset])]
            /\ pc' = "zipBuilt"
            /\ error' = error
    /\ UNCHANGED <<sheets, outputPath, lastId, titleToId, pendingDependencies, pendingLinks,
                   rootTopic, builtSheets, si, contentJson, result, fsDir, fsFile,
                   files, zipBuffer, zipRead, calls>>

NextZipLoop ==
    \/ ZipLoopStep
    \/ ZipEndStep

SpecZipLoop == InitZipLoop /\ [][NextZipLoop]_vars

AnyTaskField(a) ==
    \/ a.taskStatus # None
    \/ a.progress # None
    \/ a.priority # None
    \/ a.startDate # None
    \/ a.dueDate # None
    \/ a.durationDays # None
    \/ a.dependencies # None

\* The built topic t has exactly one extension record, the task record, and
\* the record carries the status, progress and priority of the input a as
\* given, its dates as timestamps and its dependencies resolved.
TaskRecordCarries(t, a) ==
    /\ Len(t.extensions) = 1
    /\ t.extensions[1].provider = "org.xmind.ui.task"
    /\ \A tc \in {t.extensions[1].content} :
         /\ tc.status = a.taskStatus
         /\ tc.progress = a.progress
         /\ tc.priority = a.priority
         /\ tc.start = IF a.startDate = None THEN None ELSE Some(DateGetTime(Val(a.startDate)))
         /\ tc.due = IF a.dueDate = None THEN None ELSE Some(DateGetTime(Val(a.dueDate)))
         /\ IF a.dependencies = None \/ a.dependencies = Some(<< >>)
            THEN tc.dependencies = None
            ELSE /\ tc.dependencies # None
                 /\ Len(Val(tc.dependencies)) = Len(Val(a.dependencies))
                 /\ \A i \in 1..Len(Val(a.dependencies)) :
                      /\ Val(tc.dependencies)[i].type = Val(a.dependencies)[i].type
                      /\ Val(tc.dependencies)[i].id
                            \in IdsTitled(Val(a.dependencies)[i].targetTitle)

\* C25 as stated: a built topic has exactly one task record when its input
\* has a task field (a 0 counts as a value) and no extension otherwise, and
\* every field given is carried by the record, durationDays included (as
\* the duration of that many days).
C25_EveryTaskFieldCopied ==
    Has(result) =>
        \A k \in 1..Len(AllInputTopics) :
            \A a \in {AllInputTopics[k]}, t \in {DocTopics[k]} :
                IF AnyTaskField(a)
                THEN /\ TaskRecordCarries(t, a)
                     /\ a.durationDays # None =>
                           t.extensions[1].content.duration
                              = Some(Val(a.durationDays) * 86400000)
                ELSE t.extensions = << >>

\* C25 as amended: the same, durationDays being carried only when no
\* startDate is given.
C25_TaskRecordIffTaskField ==
    Has(result) =>
        \A k \in 1..Len(AllInputTopics) :
            \A a \in {AllInputTopics[k]}, t \in {DocTopics[k]} :
                IF AnyTaskField(a)
                THEN /\ TaskRecordCarries(t, a)
                     /\ (a.durationDays # None /\ a.startDate = None) =>
                           t.extensions[1].content.duration
                              = Some(Val(a.durationDays) * 86400000)
                ELSE t.extensions = << >>

\* C25 witness: a returned document whose topic was given progress 0,
\* priority 0 and durationDays 0 and nothing else: one task record, with
\* the three zeros.
C25_Witness ==
    /\ Has(result)
    /\ sheets[1].rootTopic = [PlainTopic("A") EXCEPT !.progress = Some(0),
                                                     !.priority = Some(0),
                                                     !.durationDays = Some(0)]
    /\ Len(Doc[1].rootTopic.extensions) = 1
    /\ Doc[1].rootTopic.extensions[1].content.progress = Some(0)
    /\ Doc[1].rootTopic.extensions[1].content.priority = Some(0)
    /\ Doc[1].rootTopic.extensions[1].content.duration = Some(0)

\* C26: the duration of the task record, by cases: with startDate and
\* dueDate it is due - start in milliseconds, whatever durationDays is; with
\* durationDays and no startDate it is durationDays * 86400000, a dueDate
\* given or not; with startDate and no dueDate there is no duration, a
\* durationDays given or not.
C26_DurationByCases ==
    Has(result) =>
        \A k \in 1..Len(AllInputTopics) :
            \A a \in {AllInputTopics[k]}, t \in {DocTopics[k]} :
                /\ (a.startDate # None /\ a.dueDate # None) =>
                      t.extensions[1].content.duration
                         = <<(Val(a.dueDate) - Val(a.startDate)) * 86400000>>
                /\ (a.durationDays # None /\ a.startDate = None) =>
                      t.extensions[1].content.duration = <<Val(a.durationDays) * 86400000>>
                /\ (a.startDate # None /\ a.dueDate = None) =>
                      t.extensions[1].content.duration = << >>

\* C26 witness: a returned document whose topic was given startDate day 0,
\* dueDate day 1 and durationDays 0: the duration is the one day between
\* the dates.
C26_Witness ==
    /\ Has(result)
    /\ sheets[1].rootTopic.startDate = Some(0)
    /\ sheets[1].rootTopic.dueDate = Some(1)
    /\ sheets[1].rootTopic.durationDays = Some(0)
    /\ Doc[1].rootTopic.extensions[1].content.duration = <<86400000>>
    /\ Doc[1].rootTopic.extensions[1].content.start = <<0>>
    /\ Doc[1].rootTopic.extensions[1].content.due = <<86400000>>

\* --------------------------------------------------- the pending tables

\* C27 as stated: when build() has returned a document, the table of the
\* pending links and the table of the pending dependencies are empty.
C27_PendingDrained ==
    Has(result) => (pendingLinks = EmptyMap /\ pendingDependencies = EmptyMap)

\* The pending table pend holds exactly one entry per topic of the input
\* whose field Field(a) is given, keyed by the identifier of the topic
\* built from it, the value being what the input gave.
HoldsExactly(pend, Given(_), Field(_)) ==
    \A ks \in {{k \in 1..Len(AllInputTopics) : Given(AllInputTopics[k])}} :
        /\ DOMAIN pend = {DocTopics[k].id : k \in ks}
        /\ \A k \in ks : pend[DocTopics[k].id] = Field(AllInputTopics[k])

\* C27 as amended: the tables are emptied at the entry of build(), not by
\* the resolution: when build() has returned a document they hold the
\* entries of that call and no other, one per topic given a link or a
\* non-empty dependency list, each of them resolved in the document.
C27_PendingKeptUntilNextBuild ==
    Has(result) =>
        /\ HoldsExactly(pendingLinks,
                        LAMBDA a : a.linkToTopic # None,
                        LAMBDA a : Val(a.linkToTopic))
        /\ HoldsExactly(pendingDependencies,
                        LAMBDA a : a.dependencies # None /\ Val(a.dependencies) # << >>,
                        LAMBDA a : Val(a.dependencies))
        /\ \A k \in 1..Len(AllInputTopics) :
             \A a \in {AllInputTopics[k]}, t \in {DocTopics[k]} :
                /\ a.linkToTopic # None =>
                      (t.href # None /\ Val(t.href).id # None
                         /\ Val(Val(t.href).id) \in IdsTitled(Val(a.linkToTopic)))
                /\ (a.dependencies # None /\ Val(a.dependencies) # << >>) =>
                      t.extensions[1].content.dependencies # None

\* C27 witness: the third call has returned a document for a root with a
\* link and a dependency, on the builder whose previous call had returned a
\* document with a link and a dependency too; both tables hold one entry.
C27_Witness ==
    /\ CallsDone
    /\ Has(result)
    /\ Has(calls.past[2].result)
    /\ Val(calls.past[2].result).content.json[1].rootTopic.href # None
    /\ Len(Val(calls.past[2].result).content.json[1].rootTopic.extensions) = 1
    /\ Cardinality(DOMAIN pendingLinks) = 1
    /\ Cardinality(DOMAIN pendingDependencies) = 1

\* -------------------------------------------------- referential integrity

\* The identifiers the document refers to: the targets of the internal
\* links, the resolved dependencies, the two ends of the relationships.
ReferencedIds ==
    {Val(Val(t.href).id) :
        t \in {x \in Range(DocTopics) : x.href # None /\ Val(x.href).id # None}}
    \cup
    UNION {{d.id : d \in Range(Val(t.extensions[1].content.dependencies))} :
             t \in {x \in Range(DocTopics) :
                      Len(x.extensions) > 0 /\ x.extensions[1].content.dependencies # None}}
    \cup
    UNION {{r.end1Id : r \in Range(Doc[s].relationships)}
             \cup {r.end2Id : r \in Range(Doc[s].relationships)} : s \in 1..Len(Doc)}

\* C28: in the document build() returns, every identifier referred to (by
\* an internal link, a resolved dependency or an end of a relationship) is
\* the identifier of a topic of that document, never one of an earlier
\* build or of no topic.
C28_ReferencesPointIntoDocument ==
    Has(result) => ReferencedIds \subseteq {t.id : t \in Range(DocTopics)}

\* C28 witness: on a builder that has already built a root titled "B", the
\* third call returned a document for a root "A" with a child "B", where
\* the link and the dependency of the root refer to the child of this
\* document and the relationship runs from the root to that child.
C28_Witness ==
    /\ CallsDone
    /\ Has(result)
    /\ Has(calls.past[2].result)
    /\ Val(calls.past[2].result).content.json[1].rootTopic.title = "B"
    /\ Doc[1].rootTopic.title = "A"
    /\ Len(DocTopics) = 2
    /\ Doc[1].rootTopic.href = Some(InternalHref(DocTopics[2].id))
    /\ Len(Doc[1].rootTopic.extensions) = 1
    /\ Doc[1].rootTopic.extensions[1].content.dependencies # None
    /\ Len(Doc[1].relationships) = 1
    /\ Doc[1].relationships[1].end1Id = DocTopics[1].id
    /\ Doc[1].relationships[1].end2Id = DocTopics[2].id
    /\ ReferencedIds = {DocTopics[1].id, DocTopics[2].id}

\* ------------------------------------------------------------ the checksum

\* CRC-32 as the standard defines it (ISO 3309, ITU-T V.42), bit by bit:
\* the generator polynomial by its exponents, the message taken least
\* significant bit first, a 32-bit register that starts all ones and is
\* complemented at the end.  The register is the set of the exponents whose
\* coefficient is 1.
CrcExponents == {0, 1, 2, 4, 5, 7, 8, 10, 11, 12, 16, 22, 23, 26}
RefExponents == 0..31

\* Bit j (from 1) of the message buf, each byte least significant bit first.
RefBit[buf \in Seq(0..255), j \in 1..64] ==
    (buf[((j - 1) \div 8) + 1] \div (2 ^ ((j - 1) % 8))) % 2

\* One message bit: multiply by x, and add the generator when the bit that
\* leaves the register differs from the message bit.
RefStep[reg \in SUBSET RefExponents, bit \in 0..1] ==
    IF (31 \in reg) = (bit = 1)
    THEN {e + 1 : e \in reg \ {31}}
    ELSE {e \in RefExponents : (e \in CrcExponents) # (e > 0 /\ (e - 1) \in reg)}

\* The register after the first j bits of buf.
RefRegister[buf \in Seq(0..255), j \in 0..64] ==
    IF j = 0 THEN RefExponents ELSE RefStep[RefRegister[buf, j - 1], RefBit[buf, j]]

\* The four bytes of the checksum, least significant first: bit b of the
\* value is the complemented coefficient of x^(31 - b).
RefCrc32(buf) ==
    LET BitOf[reg \in SUBSET RefExponents, b \in 0..31] ==
            IF (31 - b) \in reg THEN 0 ELSE 1
        ByteOf[reg \in SUBSET RefExponents, k \in 1..4] ==
            BitOf[reg, 8 * k - 8] + 2 * BitOf[reg, 8 * k - 7] + 4 * BitOf[reg, 8 * k - 6]
            + 8 * BitOf[reg, 8 * k - 5] + 16 * BitOf[reg, 8 * k - 4]
            + 32 * BitOf[reg, 8 * k - 3] + 64 * BitOf[reg, 8 * k - 2]
            + 128 * BitOf[reg, 8 * k - 1]
        Bytes[reg \in SUBSET RefExponents] ==
            <<ByteOf[reg, 1], ByteOf[reg, 2], ByteOf[reg, 3], ByteOf[reg, 4]>>
    IN Bytes[RefRegister[buf, 8 * Len(buf)]]

\* The CRC field of the local record of the i-th entry of fs in buf.
LocalCrcField(buf, fs, i) ==
    LET local[j \in 1..i] == IF j = 1 THEN 0 ELSE local[j - 1] + LocalSize(fs[j - 1])
    IN Slice(buf, local[i] + 14, 4)

\* C29: the checksum written for an entry is the standard CRC-32 of the
\* bytes given for it (not of the compressed bytes): four bytes, that is a
\* value of 0 .. 2^32 - 1, all zero for an entry with no bytes, and the
\* published values for the one-byte messages 00 and FF.
C29_ChecksumIsCrc32OfRawBytes ==
    Has(zipBuffer) =>
        \A i \in 1..Len(files) :
            \A crc \in {LocalCrcField(Val(zipBuffer), files, i)} :
                /\ Len(crc) = 4
                /\ \A k \in 1..4 : crc[k] \in 0..255
                /\ crc = RefCrc32(files[i].data)
                /\ files[i].data = << >> => crc = <<0, 0, 0, 0>>
                /\ files[i].data = <<0>> => crc = <<141, 239, 2, 210>>
                /\ files[i].data = <<255>> => crc = <<0, 0, 0, 255>>

\* C29 witness: a buffer whose first entry has the byte FF and whose second
\* entry has no byte; the checksum written for the first is FF000000, which
\* is not the CRC-32 of its compressed bytes.
C29_Witness ==
    /\ Has(zipBuffer)
    /\ Len(files) = 2
    /\ files[1].data = <<255>>
    /\ files[2].data = << >>
    /\ LocalCrcField(Val(zipBuffer), files, 1) = <<0, 0, 0, 255>>
    /\ LocalCrcField(Val(zipBuffer), files, 1) # RefCrc32(DeflateRaw(files[1].data))
    /\ LocalCrcField(Val(zipBuffer), files, 2) = <<0, 0, 0, 0>>

====
